---- MODULE Spec2Model ----
(***************************************************************************)
(* Moderation decision pipeline of mod-gpt / Sentinel.                     *)
(*                                                                         *)
(* The model follows ModerationAgent (services/moderation.py),             *)
(* ConversationManager (services/conversations.py) and the conversation    *)
(* and heuristic operations of Database (sentinel/db.py).                  *)
(*                                                                         *)
(* Text is a sequence of word tokens; "a in b" on strings is the           *)
(* substring test In on token sequences and str.lower() maps each token    *)
(* to its lower-case form.  Confidence 0.0..1.0 is kept in hundredths      *)
(* (0.7 is 70).  Time is in seconds.  The summary that _log_action sends   *)
(* to the logs channel or to the logger is the effect "log".               *)
(***************************************************************************)
EXTENDS Integers, Sequences, FiniteSets, TLC

VARIABLES
    dry_run,        \* BotState.dry_run
    proactive,      \* BotState.proactive_moderation
    automations,    \* BotState.automations: channel -> AutomationRule
    db_up,          \* Database._ensure_connection() yields a connection
    convs,          \* table conversation_threads (row id = position)
    heur,           \* table heuristic_rules (row id = position)
    now,            \* wall clock, seconds
    pc,             \* "idle" | "handled" | "ticked" | "edited": position of the event loop
    event,          \* the event whose handling has just completed
    pre,            \* the two tables as they were when the event arrived
    decision,       \* what should_respond returned for the event
    trace,          \* effects of the handling, in program order
    failed,         \* an exception left the handler
    split,          \* a call of split_message: its arguments and its result
    tasks,          \* handlers and store calls in flight, one per task
    lock            \* StateStore._lock: the task that holds it, or free

vars == <<dry_run, proactive, automations, db_up, convs, heur,
          now, pc, event, pre, decision, trace, failed, split, tasks, lock>>

----------------------------------------------------------------------------
(* Bounds of the exploration *)

MaxConvs == 2       \* rows of conversation_threads
MaxUse == 2         \* largest use_count explored
MaxSends == 2       \* send_message calls in one reasoning response
MaxTime == 62       \* largest clock value explored
MaxRules == 2       \* rows of heuristic_rules

(* Program constants *)

ContinueWindow == 60        \* seconds, ConversationManager.should_respond
RecentWindow == 1800        \* seconds, find_active_conversation: 30 minutes
MinConfidence == 70         \* min_confidence=0.7

----------------------------------------------------------------------------
(* Identities *)

Bot == "bot"
Users == {"u1", "u2"}
Guild == "g1"
NoGuild == "none"
GlobalScope == "NULL"
TextChannels == {"c1"}
Threads == {"t1"}
Channels == TextChannels \cup Threads
NoConv == 0

IsThread(ch) == ch \in Threads
Parent(ch) == IF ch = "t1" THEN "c1" ELSE ch
OtherUser(u) == IF u = "u1" THEN "u2" ELSE "u1"

----------------------------------------------------------------------------
(* Text *)

Lower(tok) ==
    CASE tok = "Stop" -> "stop"
      [] tok = "Nitro" -> "nitro"
      [] tok = "Free" -> "free"
      [] OTHER -> tok

LowerSeq(s) == [i \in DOMAIN s |-> Lower(s[i])]

\* needle occurs in hay as whole words
ContainsSeq(hay, needle) ==
    \E i \in 0..(Len(hay) - Len(needle)) :
        \A j \in 1..Len(needle) : hay[i + j] = needle[j]

\* the word sub is a substring of the word tok
SubTok(sub, tok) ==
    \/ sub = tok
    \/ <<sub, tok>> \in { <<"stop", "nonstop">>, <<"nitro", "nitros">> }

\* Python: needle in hay
In(needle, hay) ==
    IF Len(needle) = 1
    THEN \E i \in DOMAIN hay : SubTok(needle[1], hay[i])
    ELSE ContainsSeq(hay, needle)

EXIT_KEYWORDS ==
    { <<"nevermind">>, <<"never", "mind">>, <<"stop">>, <<"quit">>, <<"cancel">>,
      <<"forget", "it">>, <<"ignore", "that">>, <<"not", "you">>,
      <<"wasn't", "talking", "to", "you">> }

_contains_exit_keyword(content) ==
    \E kw \in EXIT_KEYWORDS : In(kw, LowerSeq(content))

----------------------------------------------------------------------------
(* Database: conversation_threads *)

NoThread == "none"

ConvRow(guild, channel, thread, user, t) ==
    [guild |-> guild, channel |-> channel, thread |-> thread,
     participants |-> {user}, last |-> t, active |-> TRUE]

MinOf(S) == CHOOSE x \in S : \A y \in S : x <= y
MaxOf(S) == CHOOSE x \in S : \A y \in S : y <= x

\* "order by last_activity_at desc limit 1": rows with equal last_activity_at come
\* back in an order SQL leaves open; tb picks which end of the tie is returned.
LatestOf(cs, cands, tb) ==
    LET best == {i \in cands : \A j \in cands : cs[j].last <= cs[i].last}
    IN  IF cands = {} THEN NoConv
        ELSE IF tb = "lo" THEN MinOf(best) ELSE MaxOf(best)

find_active_conversation(cs, t, guild_id, channel_id, user_id, thread_id, tb) ==
    IF ~db_up THEN NoConv
    ELSE IF thread_id # NoThread
    THEN LatestOf(cs, {i \in DOMAIN cs : /\ cs[i].guild = guild_id
                                         /\ cs[i].thread = thread_id
                                         /\ cs[i].active}, tb)
    ELSE LatestOf(cs, {i \in DOMAIN cs : /\ cs[i].guild = guild_id
                                         /\ cs[i].channel = channel_id
                                         /\ cs[i].thread = NoThread
                                         /\ cs[i].active
                                         /\ t - cs[i].last < RecentWindow
                                         /\ user_id \in cs[i].participants}, tb)

end_conversation(cs, id) ==
    IF ~db_up THEN cs ELSE [cs EXCEPT ![id].active = FALSE]

add_conversation_participant(cs, t, id, user_id) ==
    IF ~db_up THEN cs
    ELSE [cs EXCEPT ![id].participants = @ \cup {user_id}, ![id].last = t]

add_conversation_message(cs, t, id) ==
    IF ~db_up THEN cs ELSE [cs EXCEPT ![id].last = t]

----------------------------------------------------------------------------
(* ConversationManager *)

ThreadOf(m) == IF IsThread(m.channel) THEN m.channel ELSE NoThread

\* other_user_mentions: mentions that are neither the bot nor the author
OtherMentions(m) == IF m.mentions_other THEN {OtherUser(m.author)} ELSE {}

\* variant: a conversation that never grows too old to continue
NeverTooOld(time_since_last) == FALSE

\* "Only continue if within 1 minute (60 seconds)"
TooOld(time_since_last) == time_since_last > ContinueWindow

\* Result: respond, conv (the conversation_id returned), convs (the table afterwards)
should_respond(cs, t, m, bot_mentioned, tb) ==
    LET thread_id == ThreadOf(m)
        conv == find_active_conversation(cs, t, m.guild, Parent(m.channel),
                                         m.author, thread_id, tb)
        No == [respond |-> FALSE, conv |-> NoConv, convs |-> cs]
    IN  IF m.is_bot THEN No
        ELSE IF bot_mentioned THEN [respond |-> TRUE, conv |-> NoConv, convs |-> cs]
        ELSE IF thread_id # NoThread /\ conv # NoConv
        THEN [respond |-> TRUE, conv |-> conv, convs |-> cs]
        ELSE IF OtherMentions(m) # {} THEN No
        ELSE IF conv = NoConv THEN No
        ELSE IF TooOld(t - cs[conv].last) THEN No
        ELSE IF _contains_exit_keyword(m.content)
        THEN [respond |-> FALSE, conv |-> NoConv, convs |-> end_conversation(cs, conv)]
        ELSE [respond |-> TRUE, conv |-> conv, convs |-> cs]

\* Result: id (0 when start_conversation raised), convs, failed
start_or_continue_conversation(cs, t, m, conversation_id) ==
    IF conversation_id = NoConv
    THEN IF ~db_up
         THEN [id |-> NoConv, convs |-> cs, failed |-> TRUE]
         ELSE LET row == ConvRow(m.guild, Parent(m.channel), ThreadOf(m), m.author, t)
                  cs1 == Append(cs, row)
              IN  [id |-> Len(cs1), convs |-> add_conversation_message(cs1, t, Len(cs1)),
                   failed |-> FALSE]
    ELSE [id |-> conversation_id,
          convs |-> add_conversation_message(
                        add_conversation_participant(cs, t, conversation_id, m.author),
                        t, conversation_id),
          failed |-> FALSE]

RECURSIVE AddAll(_, _, _, _)
AddAll(cs, t, id, users) ==
    IF users = {} THEN cs
    ELSE LET u == CHOOSE x \in users : TRUE
         IN  AddAll(add_conversation_participant(cs, t, id, u), t, id, users \ {u})

handle_mention_tracking(cs, t, m, conversation_id) ==
    AddAll(cs, t, conversation_id, OtherMentions(m))

----------------------------------------------------------------------------
(* Effects of a handler run.  The handler state s carries the two tables,   *)
(* the effects so far and whether an exception is propagating.              *)

Eff(k, op, a, dry) == [k |-> k, op |-> op, a |-> a, dry |-> dry]

Emit(s, e) == [s EXCEPT !.trace = Append(@, e)]

Raise(s) == [s EXCEPT !.failed = TRUE]

\* A call of a Discord primitive that changes the platform: message.delete,
\* member.timeout, member.kick, member.ban, member.send, channel.send,
\* message.create_thread.  a is the platform's answer: "ok", "forbidden"
\* (discord.Forbidden) or "error" (any other discord.HTTPException).
Platform(s, op, a) == Emit(s, Eff("platform", op, a, FALSE))

\* Database.record_moderation writes the ModerationRecord only with a connection
_log_action(s, action_type, dry) ==
    LET s1 == IF db_up THEN Emit(s, Eff("audit", action_type, "row", dry)) ELSE s
    IN  Emit(s1, Eff("log", action_type, "summary", dry))

----------------------------------------------------------------------------
(* Database: heuristic_rules *)

HeurRow(guild_id, pattern, pattern_type, confidence, severity) ==
    [guild |-> guild_id, pattern |-> pattern, ptype |-> pattern_type,
     confidence |-> confidence, severity |-> severity,
     active |-> TRUE, requires_review |-> FALSE, use_count |-> 0]

SameKey(r, guild_id, pattern, pattern_type) ==
    r.guild = guild_id /\ r.pattern = pattern /\ r.ptype = pattern_type

Greatest(a, b) == IF a >= b THEN a ELSE b

\* variant: an insert that never looks for an existing row
insert_without_lookup(hs, guild_id, pattern, pattern_type, confidence, severity) ==
    IF ~db_up
    THEN [heur |-> hs, id |-> 0, is_new |-> FALSE, failed |-> TRUE]
    ELSE [heur |-> Append(hs, HeurRow(guild_id, pattern, pattern_type,
                                      confidence, severity)),
          id |-> Len(hs) + 1, is_new |-> TRUE, failed |-> FALSE]

\* Result: heur (the table afterwards), id, is_new, failed (RuntimeError)
insert_heuristic_rule(hs, guild_id, pattern, pattern_type, confidence, severity) ==
    LET existing == {i \in DOMAIN hs : SameKey(hs[i], guild_id, pattern, pattern_type)}
        i == MinOf(existing)
        update == \/ confidence > hs[i].confidence
                  \/ confidence = hs[i].confidence /\ severity # hs[i].severity
        row == [hs[i] EXCEPT
                   !.confidence = Greatest(hs[i].confidence, confidence),
                   !.severity = IF confidence > hs[i].confidence
                                THEN severity ELSE hs[i].severity]
    IN  IF ~db_up
        THEN [heur |-> hs, id |-> 0, is_new |-> FALSE, failed |-> TRUE]
        ELSE IF existing # {}
        THEN [heur |-> IF update THEN [hs EXCEPT ![i] = row] ELSE hs,
              id |-> i, is_new |-> FALSE, failed |-> FALSE]
        ELSE [heur |-> Append(hs, HeurRow(guild_id, pattern, pattern_type,
                                          confidence, severity)),
              id |-> Len(hs) + 1, is_new |-> TRUE, failed |-> FALSE]

\* variant: rules ordered by rising confidence
RanksLowestFirst(a, b) ==
    \/ a.confidence < b.confidence
    \/ a.confidence = b.confidence /\ a.use_count <= b.use_count

\* "order by confidence desc, use_count desc"
RanksBefore(a, b) ==
    \/ a.confidence > b.confidence
    \/ a.confidence = b.confidence /\ a.use_count >= b.use_count

RECURSIVE SortRules(_, _, _)
SortRules(hs, ids, tb) ==
    IF ids = {} THEN <<>>
    ELSE LET best == {i \in ids : \A j \in ids : RanksBefore(hs[i], hs[j])}
             top == IF tb = "lo" THEN MinOf(best) ELSE MaxOf(best)
         IN  <<top>> \o SortRules(hs, ids \ {top}, tb)

\* variant: a select without "where (guild_id = %s or guild_id is null)"
fetch_heuristics_of_any_guild(hs, guild_id, min_confidence, tb) ==
    IF ~db_up THEN <<>>
    ELSE SortRules(hs, {i \in DOMAIN hs : /\ hs[i].active
                                         /\ hs[i].confidence >= min_confidence}, tb)

\* variant: a select without "and active = true"
fetch_heuristics_of_any_state(hs, guild_id, min_confidence, tb) ==
    IF ~db_up THEN <<>>
    ELSE SortRules(hs, {i \in DOMAIN hs : /\ hs[i].guild \in {guild_id, GlobalScope}
                                         /\ hs[i].confidence >= min_confidence}, tb)

\* Result: the ids of the selected rows, in the order of the result set
fetch_active_heuristics(hs, guild_id, min_confidence, tb) ==
    IF ~db_up THEN <<>>
    ELSE SortRules(hs, {i \in DOMAIN hs : /\ hs[i].guild \in {guild_id, GlobalScope}
                                         /\ hs[i].active
                                         /\ hs[i].confidence >= min_confidence}, tb)

\* "update heuristic_rules set requires_review = true where id = %s"
mark_heuristic_for_review(hs, id) ==
    IF ~db_up THEN hs ELSE [hs EXCEPT ![id].requires_review = TRUE]

\* variant: the counter is written from a value read before the update
usage_overwritten(hs, id) ==
    IF ~db_up THEN hs ELSE [hs EXCEPT ![id].use_count = 1]

\* "update heuristic_rules set use_count = use_count + 1 where id = %s"
increment_heuristic_usage(hs, id) ==
    IF ~db_up THEN hs ELSE [hs EXCEPT ![id].use_count = @ + 1]

----------------------------------------------------------------------------
(* Pattern matching of _check_message_for_violations *)

\* re.compile fails on a pattern with an unbalanced parenthesis
RegexCompiles(pattern) == \A i \in DOMAIN pattern : pattern[i] # "("

RuleMatches(rule, content) ==
    LET content_lower == LowerSeq(content)
    IN  CASE rule.ptype = "exact" -> ContainsSeq(content_lower, LowerSeq(rule.pattern))
          [] rule.ptype = "regex" -> /\ RegexCompiles(rule.pattern)
                                     /\ In(LowerSeq(rule.pattern), content_lower)
          [] rule.ptype = "contains" -> In(LowerSeq(rule.pattern), content_lower)
          [] OTHER -> FALSE

\* the first rule of the result set that matches, 0 when none does
FirstMatch(hs, ids, content) ==
    LET hits == {k \in DOMAIN ids : RuleMatches(hs[ids[k]], content)}
    IN  IF hits = {} THEN 0 ELSE ids[MinOf(hits)]

----------------------------------------------------------------------------
(* Automation rules (BotState.automations) *)

NoRule == [present |-> FALSE, action |-> "", keywords |-> <<>>, active |-> FALSE]

AutomationRule(action, keywords) ==
    [present |-> TRUE, action |-> action, keywords |-> keywords, active |-> TRUE]

\* state.automations.get(message.channel.id)
RuleFor(ch) == IF ch \in DOMAIN automations THEN automations[ch] ELSE NoRule

\* variant: the automation acts but reports the message as not handled
automation_not_reported(s, m, env) ==
    LET rule == RuleFor(m.channel)
        deleted == Platform(s, "delete", env.perm)
    IN  IF rule.present /\ rule.active /\ rule.action = "delete_message" /\ ~dry_run
           /\ env.perm # "error"
        THEN [s |-> _log_action(deleted, "delete_message", FALSE), handled |-> FALSE]
        ELSE [s |-> s, handled |-> FALSE]

\* Result: s, handled.  env.perm answers delete and kick, env.send answers sends.
_apply_automation_if_needed(s, m, env) ==
    LET rule == RuleFor(m.channel)
        content == LowerSeq(m.content)
        matched_keywords == {k \in DOMAIN rule.keywords :
                                In(LowerSeq(rule.keywords[k]), content)}
        notified == Platform(s, "send", env.send)
        kicked == Platform(notified, "kick", env.perm)
        deleted == Platform(s, "delete", env.perm)
    IN  IF ~rule.present \/ ~rule.active THEN [s |-> s, handled |-> FALSE]
        ELSE IF rule.keywords # <<>> /\ matched_keywords = {}
        THEN [s |-> s, handled |-> FALSE]
        ELSE IF rule.action = "kick"
        THEN IF dry_run THEN [s |-> _log_action(s, "kick", TRUE), handled |-> TRUE]
             ELSE IF env.send # "ok" THEN [s |-> Raise(notified), handled |-> TRUE]
             ELSE IF env.perm = "error" THEN [s |-> Raise(kicked), handled |-> TRUE]
             ELSE [s |-> _log_action(kicked, "kick", FALSE), handled |-> TRUE]
        ELSE IF rule.action = "delete_message"
        THEN IF dry_run
             THEN [s |-> _log_action(s, "delete_message", TRUE), handled |-> TRUE]
             ELSE IF env.perm = "error" THEN [s |-> Raise(deleted), handled |-> TRUE]
             ELSE [s |-> _log_action(deleted, "delete_message", FALSE), handled |-> TRUE]
        ELSE [s |-> s, handled |-> FALSE]

----------------------------------------------------------------------------
(* Tool calls.  ctx: m (the message of the EventContext), dry (its dry_run), *)
(* perm, send (the platform's answers), conv (conversation_id),             *)
(* use_thread.                                                              *)

\* variant: the primitive is called without looking at dry_run
Unguarded(s, op, action_type, ctx) ==
    IF ctx.perm = "error" THEN Raise(Platform(s, op, ctx.perm))
    ELSE _log_action(Platform(s, op, ctx.perm), action_type, FALSE)

\* the message of the event has been deleted during this handling
AlreadyDeleted(s) ==
    \E i \in DOMAIN s.trace :
        s.trace[i].k = "platform" /\ s.trace[i].op = "delete" /\ s.trace[i].a = "ok"

\* One moderation primitive guarded as in the code: Forbidden is caught and the
\* action is logged all the same, any other error leaves the handler.  The
\* platform answers a delete of a deleted message with discord.NotFound.
Guarded(s, op, action_type, ctx) ==
    IF ctx.dry THEN _log_action(s, action_type, TRUE)
    ELSE IF op = "delete" /\ AlreadyDeleted(s) THEN Raise(Platform(s, op, "notfound"))
    ELSE IF ctx.perm = "error" THEN Raise(Platform(s, op, ctx.perm))
    ELSE _log_action(Platform(s, op, ctx.perm), action_type, FALSE)

_tool_take_moderation_action(s, args, ctx) ==
    IF args.action = "" \/ args.target = "missing" THEN s
    ELSE IF args.target = "nonnumeric" THEN Raise(s)
    ELSE IF args.target = "unknown" THEN s
    ELSE CASE args.action = "delete_message" ->
                  IF args.msgid = "this"
                  THEN Guarded(s, "delete", "delete_message", ctx)
                  ELSE _log_action(s, "delete_message", FALSE)
           [] args.action = "warn" -> Guarded(s, "dm", "warn", ctx)
           [] args.action = "timeout" -> Guarded(s, "timeout", "timeout", ctx)
           [] args.action = "kick" -> Guarded(s, "kick", "kick", ctx)
           [] args.action = "ban" -> Guarded(s, "ban", "ban", ctx)
           [] args.action = "flag" -> _log_action(s, "flag", ctx.dry)
           [] OTHER -> s

\* explicit is "true", "false" or "none"; the heuristics are read only for "none"
_should_reply_in_thread(ctx, explicit) ==
    IF explicit # "none" THEN explicit = "true"
    ELSE IF IsThread(ctx.m.channel) THEN FALSE
    ELSE IF ctx.crowded THEN TRUE
    ELSE ctx.reply_old

\* variant: a failed thread creation ends the call
send_unless_thread_failed(s, ctx) ==
    IF ctx.create # "ok" THEN Platform(s, "create_thread", ctx.create)
    ELSE Platform(Platform(s, "create_thread", ctx.create), "send", ctx.send)

\* base_message.create_thread, "falling back to channel" when it fails, and
\* send_channel.send
send_with_new_thread(s, ctx) ==
    Platform(Platform(s, "create_thread", ctx.create), "send", ctx.send)

_tool_send_message(s, args, ctx) ==
    LET \* args.get("reply_in_thread", use_thread): use_thread when the key is
        \* absent, None when the key is present with a null value
        explicit_thread_choice ==
            IF args.thread = "absent" THEN (IF ctx.use_thread THEN "true" ELSE "false")
            ELSE IF args.thread = "null" THEN "none"
            ELSE args.thread
        \* the reply goes to the event's own channel; the reference message is
        \* context.message
        reply_in_thread ==
            IF ~IsThread(ctx.m.channel)
            THEN _should_reply_in_thread(ctx, explicit_thread_choice)
            ELSE explicit_thread_choice = "true"
        sent == IF reply_in_thread /\ ~IsThread(ctx.m.channel)
                THEN send_with_new_thread(s, ctx)
                ELSE Platform(s, "send", ctx.send)
    IN  IF args.text = "" THEN s
        ELSE IF args.channel = "bad" THEN s
        ELSE IF ctx.dry THEN _log_action(s, "message", TRUE)
        ELSE IF ctx.send # "ok" THEN sent
        ELSE IF ctx.conv # NoConv
        THEN [sent EXCEPT !.convs = add_conversation_message(@, now, ctx.conv)]
        ELSE sent

_tool_escalate(s, args, ctx) ==
    IF args.summary = "" THEN s ELSE _log_action(s, "escalate", ctx.dry)

NoSuggestion == [pattern |-> <<>>, ptype |-> "", confidence |-> 0, severity |-> ""]

_tool_suggest_heuristic(s, args, ctx) ==
    LET r == args.rule
        ins == insert_heuristic_rule(s.heur, ctx.m.guild, r.pattern, r.ptype,
                                     r.confidence, r.severity)
    IN  IF r.pattern = <<>> \/ r.ptype = "" \/ r.confidence = 0 \/ r.severity = ""
        THEN s
        ELSE IF ins.failed THEN s
        ELSE IF ins.is_new
        THEN _log_action([s EXCEPT !.heur = ins.heur], "heuristic_created", FALSE)
        ELSE [s EXCEPT !.heur = ins.heur]

_execute_tool_call(s, call, ctx) ==
    IF call.json = "invalid" THEN s
    ELSE IF call.json = "nonobject" /\ call.name \in {"take_moderation_action",
                 "send_message", "escalate_to_human", "suggest_heuristic"}
    THEN Raise(s)
    ELSE CASE call.name = "take_moderation_action" ->
                  _tool_take_moderation_action(s, call, ctx)
           [] call.name = "send_message" -> _tool_send_message(s, call, ctx)
           [] call.name = "escalate_to_human" -> _tool_escalate(s, call, ctx)
           [] call.name = "suggest_heuristic" -> _tool_suggest_heuristic(s, call, ctx)
           [] OTHER -> s

\* "for call in ...: await self._execute_tool_call(...)": an exception ends the loop
RECURSIVE RunCalls(_, _, _)
RunCalls(s, calls, ctx) ==
    IF calls = <<>> \/ s.failed THEN s
    ELSE RunCalls(_execute_tool_call(s, Head(calls), ctx), Tail(calls), ctx)

----------------------------------------------------------------------------
(* Reasoning.  env: perm, send (the platform's answers during the event),   *)
(* llm ("ok", "unavailable", "error"), calls (the tool calls of the         *)
(* response), busy (should_use_thread found the channel busy), tb.          *)

\* "For send_message, only allow one call per response"
RECURSIVE Dedup(_, _)
Dedup(calls, seen) ==
    IF calls = <<>> THEN <<>>
    ELSE IF Head(calls).name = "send_message" /\ seen THEN Dedup(Tail(calls), seen)
    ELSE <<Head(calls)>> \o Dedup(Tail(calls),
                                  seen \/ Head(calls).name = "send_message")

_reason_about_event(s, env, ctx) ==
    LET asked == Emit(s, Eff("llm", "full", env.llm, FALSE))
    IN  IF env.llm # "ok" THEN asked
        ELSE RunCalls(asked, Dedup(env.calls, FALSE), ctx)

\* variant: the message is deleted only once the reasoning service has answered
detection_waits_for_llm(s, m, env) ==
    LET ctx == [m |-> m, dry |-> dry_run, perm |-> env.perm, send |-> env.send,
                create |-> env.create, conv |-> NoConv, use_thread |-> FALSE,
                crowded |-> env.crowded, reply_old |-> env.reply_old]
        asked == Emit(s, Eff("llm", "violation", env.llm, FALSE))
        deleted == IF ~dry_run THEN Platform(asked, "delete", env.perm) ELSE asked
    IN  IF env.llm # "ok" THEN asked
        ELSE [RunCalls(deleted, env.calls, ctx) EXCEPT !.failed = FALSE]

_handle_heuristic_detection(s, m, env) ==
    LET ctx == [m |-> m, dry |-> dry_run, perm |-> env.perm, send |-> env.send,
                create |-> env.create, conv |-> NoConv, use_thread |-> FALSE,
                crowded |-> env.crowded, reply_old |-> env.reply_old]
        deleted == IF ~dry_run THEN Platform(s, "delete", env.perm) ELSE s
        asked == Emit(deleted, Eff("llm", "violation", env.llm, FALSE))
    IN  IF env.llm # "ok" THEN asked
        ELSE [RunCalls(asked, env.calls, ctx) EXCEPT !.failed = FALSE]

\* variant: rules of every confidence are fetched
check_without_threshold(s, m, env) ==
    LET heuristics == fetch_active_heuristics(s.heur, m.guild, 0, env.tb)
        hit == FirstMatch(s.heur, heuristics, m.content)
        checked == Emit(s, Eff("matcher", "check",
                               IF hit = 0 THEN "miss" ELSE "hit", FALSE))
        used == [checked EXCEPT !.heur = increment_heuristic_usage(@, hit)]
    IN  IF hit = 0 THEN [s |-> checked, handled |-> FALSE]
        ELSE [s |-> _handle_heuristic_detection(used, m, env), handled |-> TRUE]

\* Result: s, handled
_check_message_for_violations(s, m, env) ==
    LET heuristics == fetch_active_heuristics(s.heur, m.guild, MinConfidence, env.tb)
        hit == FirstMatch(s.heur, heuristics, m.content)
        checked == Emit(s, Eff("matcher", "check",
                               IF hit = 0 THEN "miss" ELSE "hit", FALSE))
        used == [checked EXCEPT !.heur = increment_heuristic_usage(@, hit)]
    IN  IF hit = 0 THEN [s |-> checked, handled |-> FALSE]
        ELSE [s |-> _handle_heuristic_detection(used, m, env), handled |-> TRUE]

----------------------------------------------------------------------------
(* ModerationAgent.handle_message *)

NoDecision == [respond |-> FALSE, conv |-> NoConv]

\* Result: convs, heur, trace, failed, decision
handle_message(m, env) ==
    LET s0 == [convs |-> convs, heur |-> heur, trace |-> <<>>, failed |-> FALSE,
               decision |-> NoDecision]
        d == should_respond(convs, now, m, m.mentions_bot, env.tb)
        decided == [s0 EXCEPT !.convs = d.convs,
                              !.decision = [respond |-> d.respond, conv |-> d.conv]]
        \* not responding
        a1 == _apply_automation_if_needed(decided, m, env)
        quiet == IF a1.handled \/ ~proactive THEN a1.s
                 ELSE _check_message_for_violations(a1.s, m, env).s
        \* responding
        st == start_or_continue_conversation(decided.convs, now, m, d.conv)
        tracked == [decided EXCEPT
                       !.convs = handle_mention_tracking(st.convs, now, m, st.id)]
        a2 == _apply_automation_if_needed(tracked, m, env)
        ctx == [m |-> m, dry |-> dry_run, perm |-> env.perm, send |-> env.send,
                create |-> env.create, conv |-> st.id,
                use_thread |-> env.busy /\ ~IsThread(m.channel),
                crowded |-> env.crowded, reply_old |-> env.reply_old]
        full == IF st.failed THEN Raise(decided)
                ELSE IF a2.handled THEN a2.s
                ELSE _reason_about_event(a2.s, env, ctx)
    IN  IF m.is_bot \/ m.guild = NoGuild THEN s0
        ELSE IF ~d.respond THEN quiet
        ELSE full

----------------------------------------------------------------------------
(* Inputs *)

Message(author, channel, mentions_bot, mentions_other, content) ==
    [author |-> author, is_bot |-> FALSE, guild |-> Guild, channel |-> channel,
     mentions_bot |-> mentions_bot, mentions_other |-> mentions_other,
     content |-> content]

BotMessage == [Message(Bot, "c1", FALSE, FALSE, <<"hi">>) EXCEPT !.is_bot = TRUE]
DirectMessage == [Message("u1", "c1", FALSE, FALSE, <<"hi">>) EXCEPT !.guild = NoGuild]

Content == [hi |-> <<"hi">>, exit |-> <<"Stop">>, scam |-> <<"Free", "nitro">>]

\* messages of the pipeline specification: one author, the text channels
Messages ==
    { Message("u1", ch, mb, FALSE, c) :
          ch \in TextChannels, mb \in BOOLEAN,
          c \in {Content.hi, Content.exit, Content.scam} }
    \cup {BotMessage, DirectMessage}

\* messages of the tool specification: one author, one channel
ToolMessages ==
    { Message("u1", "c1", mb, FALSE, c) :
          mb \in BOOLEAN, c \in {Content.hi, Content.scam} }

\* messages of the conversation specification: no heuristic ever matches
ConvMessages ==
    { Message("u1", ch, mb, mo, c) :
          ch \in Channels, mb \in BOOLEAN, mo \in BOOLEAN,
          c \in {Content.hi, Content.exit} }

Call(name) ==
    [name |-> name, json |-> "object", action |-> "", target |-> "author",
     msgid |-> "this", text |-> "", channel |-> "absent", thread |-> "absent",
     summary |-> "", rule |-> NoSuggestion]

Send == [Call("send_message") EXCEPT !.text = "hello"]
SendInThread == [Send EXCEPT !.thread = "true"]
SendInline == [Send EXCEPT !.thread = "false"]
SendNullChoice == [Send EXCEPT !.thread = "null"]
Take(action) == [Call("take_moderation_action") EXCEPT !.action = action]
Escalate == [Call("escalate_to_human") EXCEPT !.summary = "please look"]
Suggest(confidence) ==
    [Call("suggest_heuristic") EXCEPT
        !.rule = [pattern |-> <<"nitro">>, ptype |-> "contains",
                  confidence |-> confidence, severity |-> "high"]]

\* a proposed regular expression that re.compile rejects
SuggestBadRegex ==
    [Call("suggest_heuristic") EXCEPT
        !.rule = [pattern |-> <<"(">>, ptype |-> "regex",
                  confidence |-> 99, severity |-> "high"]]

Sends(n) == [i \in 1..n |-> Send]

Actions == {"delete_message", "warn", "timeout", "kick", "ban", "flag"}

Env(perm, send, llm, calls, busy, tb) ==
    [perm |-> perm, send |-> send, llm |-> llm, calls |-> calls, busy |-> busy,
     tb |-> tb, crowded |-> FALSE, reply_old |-> FALSE, create |-> send]

Answers == {"ok", "forbidden", "error"}

\* the platform answers ok, the model is asked and answers with the calls
Answer(calls) == Env("ok", "ok", "ok", calls, FALSE, "lo")

LlmDown == { Env("ok", "ok", l, <<>>, FALSE, "lo") : l \in {"unavailable", "error"} }

\* inputs of the pipeline specification
Envs ==
    LlmDown
    \cup { Answer(r) : r \in { <<>>, <<Take("delete_message")>>, <<Suggest(90)>> } }
    \cup { Answer(Sends(n)) : n \in 1..MaxSends }
    \cup { Env(p, "ok", "ok", <<>>, FALSE, "lo") : p \in Answers }
    \cup { Env("ok", a, "ok", r, FALSE, "lo") : a \in Answers, r \in { <<>>, <<Send>> } }
    \cup { Env("ok", "ok", "ok", <<Send>>, TRUE, "lo") }

SingleCalls ==
    { Take(a) : a \in Actions }
    \cup { [Take("delete_message") EXCEPT !.msgid = "other"],
           [Take("kick") EXCEPT !.target = "nonnumeric"],
           [Take("kick") EXCEPT !.target = "unknown"],
           [Send EXCEPT !.json = "invalid"],
           [Send EXCEPT !.text = ""],
           SendInThread, Escalate, Suggest(60), Suggest(90), Suggest(95),
           SuggestBadRegex }

\* arguments that are not valid JSON, not a JSON object, or of the wrong shape
MalformedCalls ==
    { [Send EXCEPT !.json = "invalid"],
      [Send EXCEPT !.json = "nonobject"],
      [Send EXCEPT !.channel = "bad"],
      [Take("kick") EXCEPT !.target = "nonnumeric"] }

\* a malformed call followed by a well-formed one
MalformedAnswers == { Answer(<<c, Escalate>>) : c \in MalformedCalls }

\* channel activity and reply target as the thread decision sees them: busy (three
\* authors or more in the last 10 minutes), crowded (three authors or more among
\* the recent messages of the last 5 minutes), reply_old (the reply target is more
\* than an hour older than the message)
ThreadAnswers ==
    { [Answer(<<c>>) EXCEPT !.busy = b, !.crowded = cr, !.reply_old = ro] :
          c \in {Send, SendInThread, SendInline, SendNullChoice},
          b \in BOOLEAN, cr \in BOOLEAN, ro \in BOOLEAN }

\* inputs of the tool specification
ToolEnvs ==
    LlmDown
    \cup MalformedAnswers
    \cup ThreadAnswers
    \cup { Answer(<<>>), Answer(<<Escalate, Send, Send>>), Answer(<<Send, Take("kick")>>),
           Answer(<<Take("delete_message"), Escalate>>),
           Answer(<<Suggest(60), Suggest(90)>>), Answer(<<Suggest(90), Suggest(60)>>) }
    \cup { Answer(Sends(n)) : n \in 1..MaxSends }
    \cup { Answer(<<c>>) : c \in SingleCalls }
    \cup { Env(p, "ok", "ok", r, FALSE, "lo") :
               p \in Answers,
               r \in { <<>>, <<Take("delete_message")>>, <<Take("warn")>>,
                       <<Take("kick")>>, <<Take("ban")>>, <<Take("timeout")>> } }
    \cup { Env("ok", a, "ok", r, FALSE, "lo") :
               a \in Answers, r \in { <<>>, <<Send>>, <<SendInThread>> } }
    \cup { Env("ok", "ok", "ok", <<Send>>, TRUE, "lo") }
    \cup { [Answer(<<SendInThread>>) EXCEPT !.create = a] : a \in Answers }

\* inputs of the conversation specification
ConvEnvs == LlmDown \cup { Answer(<<>>), Answer(<<Send>>) }

----------------------------------------------------------------------------
(* Which inputs make a difference: an input the handler never reads is kept *)
(* at its default.                                                          *)

AutomationApplies(m) ==
    LET rule == RuleFor(m.channel)
    IN  /\ rule.present /\ rule.active
        /\ rule.action \in {"kick", "delete_message"}
        /\ \/ rule.keywords = <<>>
           \/ \E k \in DOMAIN rule.keywords :
                  In(LowerSeq(rule.keywords[k]), LowerSeq(m.content))

Route(m, tb) ==
    LET d == should_respond(convs, now, m, m.mentions_bot, tb)
        hit == FirstMatch(heur, fetch_active_heuristics(heur, m.guild,
                                                        MinConfidence, tb), m.content)
    IN  IF m.is_bot \/ m.guild = NoGuild THEN "none"
        ELSE IF d.respond /\ d.conv = NoConv /\ ~db_up THEN "none"
        ELSE IF AutomationApplies(m) THEN RuleFor(m.channel).action
        ELSE IF d.respond THEN "full"
        ELSE IF proactive /\ hit # 0 THEN "violation"
        ELSE "none"

\* the tie-break is read when two rows rank the same
TieBreaks(m) ==
    IF \/ m.is_bot \/ m.guild = NoGuild
       \/ /\ should_respond(convs, now, m, m.mentions_bot, "lo")
               = should_respond(convs, now, m, m.mentions_bot, "hi")
          /\ fetch_active_heuristics(heur, m.guild, MinConfidence, "lo")
               = fetch_active_heuristics(heur, m.guild, MinConfidence, "hi")
    THEN {"lo"} ELSE {"lo", "hi"}

Relevant(route, m, env) ==
    LET plain == env.llm = "ok" /\ env.calls = <<>> /\ ~env.busy
    IN  /\ dry_run => env.perm = "ok" /\ env.send = "ok" /\ ~env.busy
        /\ CASE route = "none" -> plain /\ env.perm = "ok" /\ env.send = "ok"
             [] route = "delete_message" -> plain /\ env.send = "ok"
             [] route = "kick" -> plain
             [] route = "violation" -> ~env.busy /\ (env.calls = <<>> => env.send = "ok")
             [] OTHER -> /\ env.busy => ~IsThread(m.channel)
                         /\ env.calls = <<>> => env.perm = "ok" /\ env.send = "ok"

----------------------------------------------------------------------------
(* Seeding of the global heuristics at on_ready *)

GLOBAL_FRAUD_HEURISTICS ==
    << [pattern |-> <<"free", "nitro">>, ptype |-> "regex", confidence |-> 95,
        severity |-> "high"] >>

RECURSIVE seed_global_heuristics(_, _)
seed_global_heuristics(hs, k) ==
    IF k > Len(GLOBAL_FRAUD_HEURISTICS) THEN hs
    ELSE LET h == GLOBAL_FRAUD_HEURISTICS[k]
             existing == fetch_active_heuristics(hs, GlobalScope, 0, "lo")
             pattern_exists ==
                 \E n \in DOMAIN existing :
                     SameKey(hs[existing[n]], GlobalScope, h.pattern, h.ptype)
             ins == insert_heuristic_rule(hs, GlobalScope, h.pattern, h.ptype,
                                          h.confidence, h.severity)
         IN  IF pattern_exists \/ ins.failed THEN seed_global_heuristics(hs, k + 1)
             ELSE seed_global_heuristics(ins.heur, k + 1)

----------------------------------------------------------------------------
(* The state machine *)

QuietEnv == Env("ok", "ok", "ok", <<>>, FALSE, "lo")
NoEvent == [m |-> BotMessage, env |-> QuietEnv]
NoTables == [convs |-> <<>>, heur |-> <<>>]
NoSplit == [content |-> <<>>, max_length |-> 0, chunks |-> <<>>, returned |-> FALSE]
NoTasks == <<>>
Free == "free"

Init ==
    /\ dry_run = FALSE
    /\ proactive = TRUE
    /\ automations = [c \in TextChannels |-> NoRule]
    /\ db_up \in BOOLEAN
    /\ convs = <<>>
    /\ heur = <<>>
    /\ now = 0
    /\ pc = "idle"
    /\ event = NoEvent
    /\ pre = NoTables
    /\ decision = NoDecision
    /\ trace = <<>>
    /\ failed = FALSE
    /\ split = NoSplit
    /\ tasks = NoTasks
    /\ lock = Free

\* on_message: the whole of handle_message for one message
HandleMessage(M, E) ==
    /\ pc = "idle"
    /\ \E m \in M :
       \E tb \in TieBreaks(m) :
       LET route == Route(m, tb) IN
       \E e \in {x \in E : Relevant(route, m, x)} :
          \E r \in {handle_message(m, [e EXCEPT !.tb = tb])} :
                 /\ Len(r.convs) <= MaxConvs
                 /\ Len(r.heur) <= MaxRules
                 /\ \A i \in DOMAIN r.heur : r.heur[i].use_count <= MaxUse
                 /\ convs' = r.convs
                 /\ heur' = r.heur
                 /\ trace' = r.trace
                 /\ failed' = r.failed
                 /\ decision' = r.decision
                 /\ event' = [m |-> m, env |-> [e EXCEPT !.tb = tb]]
    /\ pre' = [convs |-> convs, heur |-> heur]
    /\ pc' = "handled"
    /\ UNCHANGED <<lock, split, tasks, dry_run, proactive, automations, db_up, now>>

\* the event loop takes the next event
Ack ==
    /\ pc \in {"handled", "ticked", "edited"}
    /\ pc' = "idle"
    /\ event' = NoEvent
    /\ pre' = NoTables
    /\ decision' = NoDecision
    /\ trace' = <<>>
    /\ failed' = FALSE
    /\ UNCHANGED <<lock, split, tasks, dry_run, proactive, automations, db_up, convs, heur, now>>

SetDryRun ==
    /\ pc = "idle"
    /\ dry_run' = ~dry_run
    /\ UNCHANGED <<lock, split, tasks, proactive, automations, db_up, convs, heur, now, pc, event, pre,
                   decision, trace, failed>>

SetProactiveModeration ==
    /\ pc = "idle"
    /\ db_up
    /\ proactive' = ~proactive
    /\ UNCHANGED <<lock, split, tasks, dry_run, automations, db_up, convs, heur, now, pc, event, pre,
                   decision, trace, failed>>

AutomationChoices ==
    { AutomationRule("delete_message", <<>>),
      AutomationRule("kick", << <<"Nitro">> >>) }

SetAutomation ==
    /\ pc = "idle"
    /\ \E ch \in TextChannels, rule \in AutomationChoices :
          /\ automations[ch] # rule
          /\ automations' = [automations EXCEPT ![ch] = rule]
    /\ UNCHANGED <<lock, split, tasks, dry_run, proactive, db_up, convs, heur, now, pc, event, pre,
                   decision, trace, failed>>

DisableAutomation ==
    /\ pc = "idle"
    /\ \E ch \in TextChannels :
          /\ automations[ch].present /\ automations[ch].active
          /\ automations' = [automations EXCEPT ![ch].active = FALSE]
    /\ UNCHANGED <<lock, split, tasks, dry_run, proactive, db_up, convs, heur, now, pc, event, pre,
                   decision, trace, failed>>

OnReady ==
    /\ pc = "idle"
    /\ heur' = seed_global_heuristics(heur, 1)
    /\ heur' # heur
    /\ Len(heur') <= MaxRules
    /\ UNCHANGED <<lock, split, tasks, dry_run, proactive, automations, db_up, convs, now, pc, event,
                   pre, decision, trace, failed>>

\* time passes between two events
Tick ==
    /\ pc = "idle"
    /\ \E d \in {ContinueWindow - 1, ContinueWindow, ContinueWindow + 1} :
          /\ now + d <= MaxTime
          /\ now' = now + d
    /\ UNCHANGED <<lock, split, tasks, dry_run, proactive, automations, db_up, convs, heur, pc, event,
                   pre, decision, trace, failed>>

MessageCreate == HandleMessage(Messages, Envs)

Next ==
    \/ MessageCreate
    \/ Ack
    \/ SetDryRun
    \/ SetProactiveModeration
    \/ SetAutomation
    \/ DisableAutomation
    \/ OnReady

\* the decision pipeline under every configuration
Spec == Init /\ [][Next]_vars

ToolMessageCreate == HandleMessage(ToolMessages, ToolEnvs)

NextTools ==
    \/ ToolMessageCreate
    \/ Ack
    \/ SetDryRun
    \/ SetAutomation
    \/ OnReady

\* every tool call and every answer of the platform
SpecTools == Init /\ [][NextTools]_vars

ConvMessageCreate == HandleMessage(ConvMessages, ConvEnvs)

NextConv ==
    \/ ConvMessageCreate
    \/ Ack
    \/ Tick

\* conversations over time
SpecConv == Init /\ [][NextConv]_vars

----------------------------------------------------------------------------
(* What a handled event shows *)

Handled == pc = "handled"

\* a message the pipeline looks at: a human's message in a guild
Human(m) == ~m.is_bot /\ m.guild # NoGuild

Where(k, op) == {i \in DOMAIN trace : trace[i].k = k /\ trace[i].op = op}

Mutations == {i \in DOMAIN trace : trace[i].k = "platform"}

Audits == {i \in DOMAIN trace : trace[i].k = "audit"}

\* reasoning calls that were answered, by kind
Asked(kind) == {i \in Where("llm", kind) : trace[i].a = "ok"}

HeuristicHit == \E i \in Where("matcher", "check") : trace[i].a = "hit"

\* the tool calls of the response that the handler goes through
ExecutedCalls ==
    IF Asked("full") # {} THEN Dedup(event.env.calls, FALSE)
    ELSE IF Asked("violation") # {} THEN event.env.calls
    ELSE <<>>

\* a take_action, send_message or escalate call that passes argument validation
ValidCall(c) ==
    /\ c.json = "object"
    /\ CASE c.name = "take_moderation_action" ->
                c.action \in Actions /\ c.target = "author"
         [] c.name = "send_message" -> c.text # "" /\ c.channel # "bad"
         [] c.name = "escalate_to_human" -> c.summary # ""
         [] OTHER -> FALSE

\* the actions the event asks for: the automation's, the deletion of a heuristic
\* detection, and each valid tool call
WouldBeActions ==
    (IF Human(event.m) /\ AutomationApplies(event.m) THEN 1 ELSE 0)
    + (IF HeuristicHit THEN 1 ELSE 0)
    + Cardinality({i \in DOMAIN ExecutedCalls : ValidCall(ExecutedCalls[i])})

----------------------------------------------------------------------------
(* Claims *)

\* C1: with dry-run on, handling an event (automation rule, heuristic detection,
\* take_action or send_message tool call) calls no platform-mutating primitive.
C1_DryRunCallsNoPrimitive == (Handled /\ dry_run) => Mutations = {}

\* a ban asked for by the reasoning service under dry-run was only logged
C1_Witness ==
    /\ Handled /\ dry_run
    /\ event.env.calls = <<Take("ban")>>
    /\ \E i \in Where("log", "ban") : trace[i].dry

\* C2: with dry-run on and the store connected, the dry-run audit records of an
\* event are exactly one per would-be action (automation action, heuristic-triggered
\* deletion, valid take_action / send_message / escalate call), and no audit record
\* of such an action lacks the dry-run mark.
C2_DryRunOneMarkedRecordEach ==
    (Handled /\ dry_run /\ db_up) =>
        /\ Cardinality({i \in Audits : trace[i].dry}) = WouldBeActions
        /\ \A i \in Audits : trace[i].dry \/ trace[i].op = "heuristic_created"

\* C3: with dry-run off, a reasoning response (full-context or violation-confirmed)
\* holding two or more valid send_message calls leads to exactly one platform send.
C3_OneSendPerResponse ==
    (/\ Handled /\ ~dry_run
     /\ Asked("full") \cup Asked("violation") # {}
     /\ Cardinality({i \in DOMAIN event.env.calls :
                        /\ event.env.calls[i].name = "send_message"
                        /\ ValidCall(event.env.calls[i])}) >= 2)
    => Cardinality(Where("platform", "send")) = 1

\* the active conversations, at arrival, of the message's author in the message's
\* channel: those of the thread for a message in a thread, those of the channel
\* itself otherwise
Own(m) ==
    {i \in DOMAIN pre.convs :
        /\ pre.convs[i].active
        /\ pre.convs[i].guild = m.guild
        /\ m.author \in pre.convs[i].participants
        /\ IF IsThread(m.channel) THEN pre.convs[i].thread = m.channel
           ELSE pre.convs[i].channel = m.channel /\ pre.convs[i].thread = NoThread}

\* the last activity of the most recent of them
LastActivity(m) == MaxOf({pre.convs[i].last : i \in Own(m)})

\* no bot mention, no mention of another user, no exit phrase
Plain(m) ==
    /\ Human(m) /\ ~m.mentions_bot /\ ~m.mentions_other
    /\ ~_contains_exit_keyword(m.content)

C5_ExitAlwaysCloses ==
    (/\ Handled /\ db_up /\ Human(event.m)
     /\ _contains_exit_keyword(event.m.content)
     /\ Own(event.m) # {})
    => /\ \A i \in Own(event.m) : ~convs[i].active
       /\ {i \in DOMAIN trace : trace[i].k = "llm"} = {}
       /\ Where("platform", "send") = {}

\* the channel's automation rule deletes every message: delete_message, no keywords
DeletesAll(m) == RuleFor(m.channel) = AutomationRule("delete_message", <<>>)

\* C6: with an active rule {delete_message, keywords = []} on the channel, dry-run
\* off and the store connected, a human's message in that channel leads to exactly
\* one platform call, the delete of the message, and to no Pattern Matcher run and
\* no reasoning call; exactly one ModerationRecord, of type delete_message and not
\* marked dry-run, is written once the platform has answered the delete (with
\* success or with Forbidden).
C6_DeleteAllRule ==
    (Handled /\ ~dry_run /\ db_up /\ Human(event.m) /\ DeletesAll(event.m)) =>
        /\ Cardinality(Mutations) = 1
        /\ Mutations = Where("platform", "delete")
        /\ Where("matcher", "check") = {}
        /\ {i \in DOMAIN trace : trace[i].k = "llm"} = {}
        /\ event.env.perm # "error" =>
               /\ Cardinality(Audits) = 1
               /\ \A i \in Audits : trace[i].op = "delete_message" /\ ~trace[i].dry

\* a message that mentions the bot is deleted by the rule and recorded once
C6_Witness ==
    /\ Handled /\ ~dry_run /\ db_up /\ Human(event.m) /\ DeletesAll(event.m)
    /\ event.m.mentions_bot
    /\ \E i \in Mutations : trace[i].op = "delete" /\ trace[i].a = "ok"
    /\ Cardinality(Audits) = 1

\* an active rule of confidence 0.7 or more, of the guild or global, matched the
\* message when it arrived
Matched(m) ==
    FirstMatch(pre.heur,
               fetch_active_heuristics(pre.heur, m.guild, MinConfidence, "lo"),
               m.content) # 0

\* C7: with proactive scanning on and dry-run off, a message that matches an active
\* heuristic rule (and that no automation rule handles) has its platform delete
\* issued first and the violation-confirmed reasoning call afterwards, once.
C7_DeleteThenConfirm ==
    (/\ Handled /\ proactive /\ ~dry_run /\ db_up
     /\ Human(event.m) /\ ~AutomationApplies(event.m) /\ Matched(event.m))
    => /\ Cardinality(Where("llm", "violation")) = 1
       /\ \A j \in Where("llm", "violation") :
              \E i \in Where("platform", "delete") : i < j

\* the rows of a rules table that carry the identity (guild, pattern, pattern type)
\* of the rule suggested by call c of the handled message
RowsOf(hs, c) ==
    {i \in DOMAIN hs : SameKey(hs[i], event.m.guild, c.rule.pattern, c.rule.ptype)}

\* the response of the handled message proposed rules only, all of one identity
SuggestedOnly ==
    /\ Handled /\ db_up /\ ~failed
    /\ ExecutedCalls # <<>>
    /\ \A i \in DOMAIN ExecutedCalls :
          /\ ExecutedCalls[i].name = "suggest_heuristic"
          /\ ExecutedCalls[i].json = "object"
          /\ ExecutedCalls[i].rule.pattern = ExecutedCalls[1].rule.pattern
          /\ ExecutedCalls[i].rule.ptype = ExecutedCalls[1].rule.ptype

\* the confidences proposed by the response and the one stored before it
ProposedOrStored ==
    {ExecutedCalls[i].rule.confidence : i \in DOMAIN ExecutedCalls}
        \cup {pre.heur[i].confidence : i \in RowsOf(pre.heur, ExecutedCalls[1])}

\* C8: proposing a rule whose (community, pattern, pattern_type) is already stored,
\* or proposing the same rule twice, leaves exactly one rule of that identity,
\* whose confidence is the greatest of the stored and the proposed ones; no two
\* rows of the table ever share an identity.
C8_SuggestIsIdempotent ==
    /\ \A i, j \in DOMAIN heur :
          (i # j) => ~SameKey(heur[i], heur[j].guild, heur[j].pattern, heur[j].ptype)
    /\ SuggestedOnly =>
          /\ Cardinality(RowsOf(heur, ExecutedCalls[1])) = 1
          /\ \A i \in RowsOf(heur, ExecutedCalls[1]) :
                heur[i].confidence = MaxOf(ProposedOrStored)

\* the same rule proposed twice, first with 0.9 then with 0.6: one row, at 0.9
C8_Witness ==
    /\ SuggestedOnly
    /\ ExecutedCalls = <<Suggest(90), Suggest(60)>>
    /\ RowsOf(pre.heur, ExecutedCalls[1]) = {}
    /\ \E i \in RowsOf(heur, ExecutedCalls[1]) : heur[i].confidence = 90

\* the action types under which a platform call is recorded
AuditType(op) ==
    CASE op = "delete" -> {"delete_message"}
      [] op = "dm" -> {"warn"}
      [] op = "send" -> {"message", "kick"}
      [] op = "create_thread" -> {"message"}
      [] OTHER -> {op}

\* C9: with the store connected, every action that was executed has a
\* ModerationRecord when the handler returns: each platform call that succeeded is
\* followed by a record of its action type.
C9_EveryActionRecorded ==
    (Handled /\ db_up /\ ~failed) =>
        \A i \in Mutations :
            trace[i].a = "ok" =>
                \E j \in Audits : j > i /\ trace[j].op \in AuditType(trace[i].op)

\* C10: with proactive scanning on, the Pattern Matcher runs on every human
\* message before any reasoning: no message reaches full-context reasoning without
\* the matcher having run on it, and a message that matches an active rule never
\* reaches full-context reasoning undeleted.
C10_MatcherBeforeReasoning ==
    (Handled /\ proactive /\ db_up /\ Human(event.m) /\ ~AutomationApplies(event.m))
    => /\ \A j \in Where("llm", "full") :
              \E i \in Where("matcher", "check") : i < j
       /\ (Matched(event.m) /\ ~dry_run) =>
              \A j \in Where("llm", "full") :
                  \E i \in Where("platform", "delete") : i < j

----------------------------------------------------------------------------
(* Automation rules of every action /set-automation accepts *)

\* "if action not in {kick, ban, delete_message, warn, timeout}"
AutomationActions == {"kick", "ban", "delete_message", "warn", "timeout"}

AnyAutomationChoices ==
    { AutomationRule(a, k) : a \in AutomationActions, k \in {<<>>, << <<"Nitro">> >>} }

SetAnyAutomation ==
    /\ pc = "idle"
    /\ \E ch \in TextChannels, rule \in AnyAutomationChoices :
          /\ automations[ch] # rule
          /\ automations' = [automations EXCEPT ![ch] = rule]
    /\ UNCHANGED <<lock, split, tasks, dry_run, proactive, db_up, convs, heur, now, pc, event, pre,
                   decision, trace, failed>>

AutoMessages ==
    { Message("u1", "c1", mb, FALSE, c) : mb \in BOOLEAN, c \in {Content.hi, Content.scam} }

AutoEnvs ==
    LlmDown
    \cup { Answer(<<>>), Answer(<<Send>>) }
    \cup { Env(p, "ok", "ok", <<>>, FALSE, "lo") : p \in Answers }

\* on_message with every input, whether the branch taken reads it or not
HandleEvery(M, E) ==
    /\ pc = "idle"
    /\ \E m \in M, e \in E :
          \E r \in {handle_message(m, e)} :
             /\ Len(r.convs) <= MaxConvs
             /\ Len(r.heur) <= MaxRules
             /\ \A i \in DOMAIN r.heur : r.heur[i].use_count <= MaxUse
             /\ convs' = r.convs /\ heur' = r.heur /\ trace' = r.trace
             /\ failed' = r.failed /\ decision' = r.decision
             /\ event' = [m |-> m, env |-> e]
    /\ pre' = [convs |-> convs, heur |-> heur]
    /\ pc' = "handled"
    /\ UNCHANGED <<lock, split, tasks, dry_run, proactive, automations, db_up, now>>

AutoMessageCreate == HandleEvery(AutoMessages, AutoEnvs)

NextAuto ==
    \/ AutoMessageCreate
    \/ Ack
    \/ SetDryRun
    \/ SetAnyAutomation
    \/ DisableAutomation
    \/ OnReady

\* automation rules of every action
SpecAuto == Init /\ [][NextAuto]_vars

\* the channel's rule is active and its keywords, if any, occur in the message
RuleMatchesMessage(m) ==
    LET rule == RuleFor(m.channel)
    IN  /\ rule.present /\ rule.active
        /\ \/ rule.keywords = <<>>
           \/ \E k \in DOMAIN rule.keywords :
                  In(LowerSeq(rule.keywords[k]), LowerSeq(m.content))

\* C11: when an active automation rule matches a message, the rule's action (kick,
\* ban, delete, warn or timeout) is executed, or simulated under dry-run, by the
\* handler itself: a record of the rule's action is written, marked dry-run exactly
\* under dry-run, and neither the Pattern Matcher nor the reasoning service is
\* invoked for the message.
C11_RuleActionExecuted ==
    (/\ Handled /\ db_up /\ ~failed /\ Human(event.m)
     /\ RuleMatchesMessage(event.m)
     /\ RuleFor(event.m.channel).action \in AutomationActions)
    => /\ \E i \in Audits : /\ trace[i].op = RuleFor(event.m.channel).action
                            /\ trace[i].dry = dry_run
       /\ Where("matcher", "check") = {}
       /\ {i \in DOMAIN trace : trace[i].k = "llm"} = {}

\* the arguments of call c are malformed
Malformed(c) ==
    \/ c.json # "object"
    \/ c.target = "nonnumeric"
    \/ c.channel = "bad"

\* C12: when a tool call of a reasoning response has malformed arguments, only that
\* call is dropped: the handler does not fail and every well-formed call of the
\* same response still takes effect (here: the escalation that follows is recorded).
C12_OnlyMalformedCallDropped ==
    (/\ Handled /\ db_up
     /\ \E i \in DOMAIN ExecutedCalls : Malformed(ExecutedCalls[i]))
    => /\ ~failed
       /\ \A i \in DOMAIN ExecutedCalls :
             (ExecutedCalls[i].name = "escalate_to_human" /\ ValidCall(ExecutedCalls[i]))
                 => Where("audit", "escalate") # {}

\* the reasoning calls of the handled event
LlmCalls == {i \in DOMAIN trace : trace[i].k = "llm"}

\* C13: when the reasoning service is unavailable or its call fails, the handler
\* completes without error and nothing is done after the failed call (no tool call
\* is executed), while the automation action and the heuristic-triggered deletion
\* of the same message still take place.
C13_LlmDownIsNotFatal ==
    (Handled /\ Human(event.m) /\ event.env.llm # "ok") =>
        /\ LlmCalls # {} => ~failed
        /\ \A i \in LlmCalls : i = Len(trace)
        /\ (AutomationApplies(event.m) /\ ~failed) =>
               /\ \E i \in DOMAIN trace :
                     /\ trace[i].k = "log"
                     /\ trace[i].op = RuleFor(event.m.channel).action
               /\ ~dry_run => Mutations # {}
               /\ LlmCalls = {}
        /\ (HeuristicHit /\ ~dry_run) => Where("platform", "delete") # {}

\* the service is down, the matching message is deleted all the same
C13_Witness ==
    /\ Handled /\ ~dry_run /\ ~failed
    /\ event.env.llm = "unavailable"
    /\ HeuristicHit
    /\ \E i \in Where("platform", "delete") : trace[i].a = "ok"
    /\ \E i \in Where("llm", "violation") : i = Len(trace)

\* C14: with the store unavailable every event is still handled to completion: no
\* handler fails because persistence is missing, and a message that mentions the
\* bot (and that no automation rule handles) still reaches the reasoning stage.
C14_StoreDownIsNotFatal ==
    (Handled /\ ~db_up /\ Human(event.m)) =>
        /\ ~failed
        /\ (event.m.mentions_bot /\ ~AutomationApplies(event.m)) => LlmCalls # {}

\* the record _log_action writes for an action of this type that succeeded
RecordOfSuccess(action_type) ==
    Head(_log_action([trace |-> <<>>], action_type, FALSE).trace)

\* C15: when a platform mutation (delete, timeout, kick, ban) is refused for missing
\* permission, a record of the action is written that differs from the record of
\* the successful action (it marks the action as attempted but failed), and the
\* mutation is attempted only once.
C15_FailureIsRecordedAsFailure ==
    (Handled /\ db_up /\ ~dry_run) =>
        \A i \in Mutations :
            (trace[i].a = "forbidden" /\ trace[i].op \in {"delete", "timeout", "kick", "ban"})
            => /\ \E j \in Audits :
                     /\ j > i
                     /\ trace[j].op \in AuditType(trace[i].op)
                     /\ trace[j] # RecordOfSuccess(trace[j].op)
               /\ Cardinality(Where("platform", trace[i].op)) = 1

\* conversation i is active and within the trailing activity window
Live(i) == convs[i].active /\ now - convs[i].last < RecentWindow

\* C16: in every state there is at most one active conversation per (guild,
\* channel, thread) among the thread-scoped ones, and at most one active
\* conversation per (guild, channel, user) among the others within the trailing
\* activity window.
C16_OneActiveConversation ==
    \A i, j \in DOMAIN convs :
        (i # j /\ Live(i) /\ Live(j)
         /\ convs[i].guild = convs[j].guild /\ convs[i].channel = convs[j].channel)
        => /\ convs[i].thread # NoThread => convs[i].thread # convs[j].thread
           /\ (convs[i].thread = NoThread /\ convs[j].thread = NoThread)
                  => convs[i].participants \cap convs[j].participants = {}

----------------------------------------------------------------------------
(* The background sweep: scheduled_tick -> handle_scheduled_tick *)

\* cleanup_old_conversations: max_age_hours = 24
MaxAgeHours == 24
StaleAge == MaxAgeHours * 3600

\* the clock of the sweep specification stops here
MaxClock == 86402

\* variant: a sweep that closes nothing
cleanup_nothing(cs, t, max_age_hours) == cs

\* "set active = false where active = true and last_activity_at < now() - interval"
cleanup_stale_conversations(cs, t, max_age_hours) ==
    IF ~db_up THEN cs
    ELSE [i \in DOMAIN cs |->
             IF cs[i].active /\ cs[i].last < t - max_age_hours * 3600
             THEN [cs[i] EXCEPT !.active = FALSE] ELSE cs[i]]

\* the reasoning service's answers to a scheduled tick
TickEnvs == LlmDown \cup { Answer(<<>>), Answer(<<Escalate>>) }

\* Result: convs, heur, trace, failed, decision
handle_scheduled_tick(env) ==
    LET s0 == [convs |-> cleanup_stale_conversations(convs, now, MaxAgeHours),
               heur |-> heur, trace |-> <<>>, failed |-> FALSE,
               decision |-> NoDecision]
        \* EventContext(bot, guild, dry_run): no message, no channel
        ctx == [dry |-> dry_run, perm |-> env.perm, send |-> env.send, create |-> env.create,
                conv |-> NoConv, use_thread |-> FALSE,
                crowded |-> FALSE, reply_old |-> FALSE]
    IN  _reason_about_event(s0, env, ctx)

ScheduledTick ==
    /\ pc = "idle"
    /\ \E e \in TickEnvs :
          \E r \in {handle_scheduled_tick(e)} :
             /\ convs' = r.convs /\ heur' = r.heur /\ trace' = r.trace
             /\ failed' = r.failed /\ decision' = r.decision
             /\ event' = [NoEvent EXCEPT !.env = e]
    /\ pre' = [convs |-> convs, heur |-> heur]
    /\ pc' = "ticked"
    /\ UNCHANGED <<lock, split, tasks, dry_run, proactive, automations, db_up, now>>

\* the instants the sweep specification looks at: around one day after the start
Instants == {1, StaleAge - 1, StaleAge, StaleAge + 1, MaxClock}

\* time passes
Elapse ==
    /\ pc = "idle"
    /\ \E t \in Instants :
          /\ now < t /\ t <= MaxClock
          /\ now' = t
    /\ UNCHANGED <<lock, split, tasks, dry_run, proactive, automations, db_up, convs, heur, pc, event,
                   pre, decision, trace, failed>>

SweepMessages == { Message("u1", ch, mb, FALSE, Content.hi) : ch \in Channels, mb \in BOOLEAN }

SweepEnvs == { Answer(<<>>), Answer(<<Send>>) }

SweepMessageCreate == HandleMessage(SweepMessages, SweepEnvs)

NextSweep ==
    \/ SweepMessageCreate
    \/ Ack
    \/ Elapse
    \/ ScheduledTick

\* conversations and the sweep; the tick's timer keeps firing and every handler
\* returns
SpecSweep == Init /\ [][NextSweep]_vars /\ SF_vars(ScheduledTick) /\ WF_vars(Ack)

Ticked == pc = "ticked"

\* conversation i is active and its last activity is more than 24 hours old
Stale(cs, i) == i \in DOMAIN cs /\ cs[i].active /\ now - cs[i].last > StaleAge

\* a sweep closes the conversations that were stale and no other
SweepClosesExactlyStale ==
    Ticked =>
        \A i \in DOMAIN pre.convs :
            pre.convs[i].active => (convs[i].active <=> ~Stale(pre.convs, i))

\* C17: the sweep that runs closes every active conversation whose last activity is
\* more than 24 hours old and none whose last activity is within the last 24 hours;
\* while ticks keep occurring, a conversation that has become that old does not
\* stay so: it is closed (unless it sees new activity first).
C17_SweepClosesStale ==
    /\ []SweepClosesExactlyStale
    /\ \A i \in 1..MaxConvs : Stale(convs, i) ~> ~Stale(convs, i)

\* a sweep has just closed a conversation idle for more than 24 hours and has left
\* open one that was active exactly 24 hours ago
C17_Witness ==
    /\ Ticked
    /\ \E i \in DOMAIN pre.convs : Stale(pre.convs, i) /\ ~convs[i].active
    /\ \E i \in DOMAIN pre.convs :
          /\ pre.convs[i].active /\ now - pre.convs[i].last = StaleAge
          /\ convs[i].active

\* the response is one valid send_message call that replies in the event's own
\* channel, a channel that is not a thread, and the platform accepts it
RepliesInOwnChannel ==
    /\ Handled /\ ~dry_run /\ ~failed /\ Asked("full") # {}
    /\ ~IsThread(event.m.channel)
    /\ Len(event.env.calls) = 1
    /\ event.env.calls[1].name = "send_message"
    /\ ValidCall(event.env.calls[1])
    /\ event.env.calls[1].channel = "absent"
    /\ event.env.send = "ok"

\* C18: a reply in the event's own non-thread channel is placed in a thread if the
\* call asks for a thread, or if the call carries no choice and either three or
\* more distinct authors were active within 5 minutes or the reply target is more
\* than an hour old; with no choice in the call and neither condition, it is sent
\* inline.
C18_ThreadDecision ==
    RepliesInOwnChannel =>
        /\ (\/ event.env.calls[1].thread = "true"
            \/ /\ event.env.calls[1].thread = "absent"
               /\ event.env.crowded \/ event.env.reply_old)
           => Where("platform", "create_thread") # {}
        /\ (/\ event.env.calls[1].thread = "absent"
            /\ ~event.env.crowded /\ ~event.env.reply_old)
           => Where("platform", "create_thread") = {}

\* the rules whose use the handled event counted: the rules the matcher surfaced
Surfaced == {i \in DOMAIN pre.heur : heur[i].use_count > pre.heur[i].use_count}

\* rule i was eligible for the message when it arrived and matches it
Eligible(i) ==
    /\ pre.heur[i].active
    /\ pre.heur[i].confidence >= MinConfidence
    /\ pre.heur[i].guild \in {event.m.guild, GlobalScope}
    /\ RuleMatches(pre.heur[i], event.m.content)

\* C19: the Pattern Matcher surfaces at most one rule per message; when an eligible
\* rule matches it surfaces exactly one, a matching rule of the highest confidence
\* and, among those, of the highest use_count.
C19_BestMatchSurfaced ==
    (Handled /\ db_up /\ Where("matcher", "check") # {}) =>
        /\ Cardinality(Surfaced) <= 1
        /\ Cardinality(Where("llm", "violation")) <= 1
        /\ {i \in DOMAIN pre.heur : Eligible(i)} # {} => Cardinality(Surfaced) = 1
        /\ \A i \in Surfaced :
              /\ Eligible(i)
              /\ \A j \in DOMAIN pre.heur :
                    Eligible(j) =>
                        \/ pre.heur[i].confidence > pre.heur[j].confidence
                        \/ /\ pre.heur[i].confidence = pre.heur[j].confidence
                           /\ pre.heur[i].use_count >= pre.heur[j].use_count

\* two matching rules of the same confidence: the one used more often is surfaced
C19_Witness ==
    /\ Handled /\ db_up
    /\ \E i \in Surfaced, j \in DOMAIN pre.heur :
          /\ i # j /\ Eligible(j)
          /\ pre.heur[i].confidence = pre.heur[j].confidence
          /\ pre.heur[i].use_count > pre.heur[j].use_count

\* the Automation Matcher reported a match: the rule's action was carried out or
\* simulated and the handler stopped there
AutomationActed ==
    /\ \E i \in DOMAIN trace : trace[i].k = "log"
    /\ LlmCalls = {}
    /\ Where("matcher", "check") = {}

\* C20: the Automation Matcher reports a match for a message if and only if the
\* channel has a rule, the rule is active, and its keyword list is empty or the
\* content contains one of its keywords (case-insensitive substring); otherwise the
\* message falls through to the Pattern Matcher or to reasoning.
C20_AutomationMatchIff ==
    (Handled /\ Human(event.m) /\ ~failed) =>
        /\ AutomationActed <=> RuleMatchesMessage(event.m)
        /\ ~RuleMatchesMessage(event.m) =>
               /\ decision.respond => LlmCalls # {}
               /\ (~decision.respond /\ proactive) => Where("matcher", "check") # {}

----------------------------------------------------------------------------
(* split_message (sentinel/utils/discord.py)                               *)
(*                                                                         *)
(* A string is a sequence of characters.  Python positions are 0-based:    *)
(* position p of a string s is s[p + 1] here, and -1 is "not found".       *)

MaxContent == 6
MaxLength == 5

\* the characters the splitter tells apart: a letter, a full stop and the
\* two white-space characters
Alphabet == {"a", ".", " ", "\n"}
Whitespace == {" ", "\n"}

RECURSIVE Strings(_)
Strings(n) ==
    IF n = 0 THEN {<<>>}
    ELSE LET shorter == Strings(n - 1)
         IN  shorter \cup {Append(x, c) : x \in {y \in shorter : Len(y) = n - 1},
                                          c \in Alphabet}

\* s[:k] and s[k:]
Prefix(s, k) == SubSeq(s, 1, IF k < Len(s) THEN k ELSE Len(s))
Suffix(s, k) == SubSeq(s, k + 1, Len(s))

RECURSIVE rstrip(_)
rstrip(s) ==
    IF s # <<>> /\ s[Len(s)] \in Whitespace THEN rstrip(SubSeq(s, 1, Len(s) - 1))
    ELSE s

\* a strip that eats one character more than the white space
lstrip_greedy(s) == IF s = <<>> THEN s ELSE Tail(s)

RECURSIVE lstrip(_)
lstrip(s) ==
    IF s # <<>> /\ Head(s) \in Whitespace THEN lstrip(Tail(s))
    ELSE s

\* s.rfind(c, 0, end)
rfind(s, c, end) ==
    LET hits == {p \in 0..(end - 1) : p < Len(s) /\ s[p + 1] = c}
    IN  IF hits = {} THEN -1 ELSE CHOOSE p \in hits : \A q \in hits : q <= p

\* a hard split one character past the limit
past_limit(max_length) == max_length + 1

\* split_point = max_length
hard_split(max_length) == max_length

\* the loop over range(max_length - 1, int(max_length * 0.5), -1)
sentence_split(remaining, max_length) ==
    LET ends == {i \in ((max_length \div 2) + 1)..(max_length - 1) :
                    /\ remaining[i + 1] = "."
                    /\ \/ i + 1 >= Len(remaining)
                       \/ remaining[i + 2] \in Whitespace}
    IN  IF ends = {} THEN hard_split(max_length)
        ELSE (CHOOSE i \in ends : \A j \in ends : j <= i) + 1

\* the split point of one round, for len(remaining) > max_length
split_point(remaining, max_length) ==
    LET newline_pos == rfind(remaining, "\n", max_length)
        space_pos == rfind(remaining, " ", max_length)
    IN  IF 2 * newline_pos > max_length THEN newline_pos + 1
        ELSE IF rfind(remaining, ".", max_length) # -1
             THEN sentence_split(remaining, max_length)
        ELSE IF 2 * space_pos > max_length THEN space_pos + 1
        ELSE hard_split(max_length)

\* the while loop
RECURSIVE split_loop(_, _, _)
split_loop(remaining, max_length, chunks) ==
    IF remaining = <<>> THEN chunks
    ELSE IF Len(remaining) <= max_length THEN Append(chunks, remaining)
    ELSE LET at == split_point(remaining, max_length)
             chunk == rstrip(Prefix(remaining, at))
         IN  split_loop(lstrip(Suffix(remaining, at)), max_length,
                        IF chunk # <<>> THEN Append(chunks, chunk) ELSE chunks)

split_message(content, max_length) ==
    IF Len(content) <= max_length THEN <<content>>
    ELSE split_loop(content, max_length, <<>>)

\* a caller hands a text and a limit of at least one character
InitSplit ==
    /\ dry_run = FALSE
    /\ proactive = TRUE
    /\ automations = [c \in TextChannels |-> NoRule]
    /\ db_up = TRUE
    /\ convs = <<>>
    /\ heur = <<>>
    /\ now = 0
    /\ pc = "idle"
    /\ event = NoEvent
    /\ pre = NoTables
    /\ decision = NoDecision
    /\ trace = <<>>
    /\ failed = FALSE
    /\ tasks = NoTasks
    /\ lock = Free
    /\ split \in [content : Strings(MaxContent), max_length : 1..MaxLength,
                  chunks : {<<>>}, returned : {FALSE}]

SplitMessage ==
    /\ ~split.returned
    /\ split' = [split EXCEPT !.chunks = split_message(split.content, split.max_length),
                              !.returned = TRUE]
    /\ UNCHANGED <<lock, tasks, dry_run, proactive, automations, db_up, convs, heur, now,
                   pc, event, pre, decision, trace, failed>>

NextSplit == SplitMessage

\* every text up to MaxContent characters under every limit up to MaxLength
SpecSplit == InitSplit /\ [][NextSplit]_vars

\* C21: every chunk that split_message returns is at most max_length
\* characters long, for every content and every max_length >= 1.
C21_ChunksWithinLimit ==
    split.returned =>
        \A i \in DOMAIN split.chunks : Len(split.chunks[i]) <= split.max_length

\* a text longer than the limit came back in several chunks, one of them full
C21_Witness ==
    /\ split.returned
    /\ Len(split.content) > split.max_length
    /\ Len(split.chunks) >= 2
    /\ \E i \in DOMAIN split.chunks : Len(split.chunks[i]) = split.max_length

RECURSIVE Concat(_)
Concat(chunks) == IF chunks = <<>> THEN <<>> ELSE Head(chunks) \o Concat(Tail(chunks))

Blank(s) == \A i \in DOMAIN s : s[i] \in Whitespace
NoWhitespace(s) == \A i \in DOMAIN s : s[i] \notin Whitespace

\* ceil(n / d)
Ceil(n, d) == (n + d - 1) \div d

\* text is the chunks in order, with nothing but white space before, between
\* and after them
RECURSIVE Rebuilds(_, _)
Rebuilds(text, chunks) ==
    IF chunks = <<>> THEN Blank(text)
    ELSE \E k \in 0..Len(text) :
            /\ Blank(Prefix(text, k))
            /\ Len(text) - k >= Len(Head(chunks))
            /\ SubSeq(text, k + 1, k + Len(Head(chunks))) = Head(chunks)
            /\ Rebuilds(Suffix(text, k + Len(Head(chunks))), Tail(chunks))

\* C22 as stated: the chunks in order reproduce the content up to white
\* space trimmed at chunk boundaries, and for every content without white
\* space the concatenation is the content and there are
\* ceil(len(content) / max_length) chunks.
C22_PreservesContentCeil ==
    split.returned =>
        /\ Rebuilds(split.content, split.chunks)
        /\ NoWhitespace(split.content) =>
              /\ Concat(split.chunks) = split.content
              /\ Len(split.chunks) = Ceil(Len(split.content), split.max_length)

\* C22: the chunks in order reproduce the content up to white space trimmed
\* at chunk boundaries; for content without white space the concatenation is
\* the content, and there are ceil(len(content) / max_length) chunks when the
\* content is not empty and one chunk, the empty one, when it is.
C22_PreservesContent ==
    split.returned =>
        /\ Rebuilds(split.content, split.chunks)
        /\ NoWhitespace(split.content) =>
              /\ Concat(split.chunks) = split.content
              /\ Len(split.chunks) = IF split.content = <<>> THEN 1
                                     ELSE Ceil(Len(split.content), split.max_length)

\* white space was trimmed at a boundary and the rest came back in order
C22_Witness ==
    /\ split.returned
    /\ Len(split.chunks) >= 2
    /\ Len(Concat(split.chunks)) < Len(split.content)
    /\ ~Blank(split.content)
    /\ Rebuilds(split.content, split.chunks)

\* C23: split_message returns at least one chunk, no chunk of a split
\* message is empty or white space only, and a content of at most max_length
\* characters (the empty one included) comes back as the single chunk
\* [content].
C23_AtLeastOneChunk ==
    split.returned =>
        /\ Len(split.chunks) >= 1
        /\ Len(split.content) > split.max_length =>
              \A i \in DOMAIN split.chunks : ~Blank(split.chunks[i])
        /\ Len(split.content) <= split.max_length => split.chunks = <<split.content>>

----------------------------------------------------------------------------
(* The heuristic store shared by several bot processes (sentinel/db.py)    *)
(*                                                                         *)
(* Database._lock is an asyncio lock of one process and every call of      *)
(* psycopg2 blocks the event loop, so the statements of one process never  *)
(* interleave with each other.  Two processes share only the tables: each  *)
(* statement is atomic and sees what the other process has committed.      *)

MaxStoreRows == 2

Procs == {"p1", "p2"}

Severities == <<"low", "medium", "high", "critical">>
SeverityRank(severity) == CHOOSE n \in DOMAIN Severities : Severities[n] = severity

NoArgs == [guild |-> GlobalScope, pattern |-> <<>>, ptype |-> "", confidence |-> 0,
           severity |-> "low"]
NoExisting == [id |-> 0, confidence |-> 0, severity |-> "low"]
NoRow == HeurRow(GlobalScope, <<>>, "", 0, "low")
IdleTask == [pc |-> "idle", op |-> "", args |-> NoArgs, existing |-> NoExisting,
             id |-> 0, is_new |-> FALSE, before |-> NoRow, after |-> NoRow,
             matches |-> <<>>]

\* the rules the reasoning tier proposes: one pattern, for the community and
\* for every community, with two confidences and two severities
StoreCalls ==
    [guild : {Guild, GlobalScope}, pattern : {<<"nitro">>}, ptype : {"contains"},
     confidence : {80, 90}, severity : {"low", "critical"}]

SeedCall(k) ==
    [guild |-> GlobalScope, pattern |-> GLOBAL_FRAUD_HEURISTICS[k].pattern,
     ptype |-> GLOBAL_FRAUD_HEURISTICS[k].ptype,
     confidence |-> GLOBAL_FRAUD_HEURISTICS[k].confidence,
     severity |-> GLOBAL_FRAUD_HEURISTICS[k].severity]

\* "select id, confidence, severity, active ... where guild_id is not
\* distinct from %s and pattern = %s and pattern_type = %s", fetchone()
select_existing(hs, a) ==
    LET found == {i \in DOMAIN hs : SameKey(hs[i], a.guild, a.pattern, a.ptype)}
        i == MinOf(found)
    IN  IF found = {} THEN NoExisting
        ELSE [id |-> i, confidence |-> hs[i].confidence, severity |-> hs[i].severity]

\* "constraint unique_pattern unique (guild_id, pattern, pattern_type)":
\* a row whose guild_id is NULL conflicts with no row
unique_pattern(hs, a) ==
    \A i \in DOMAIN hs :
        ~(/\ a.guild # GlobalScope
          /\ hs[i].guild = a.guild
          /\ hs[i].pattern = a.pattern
          /\ hs[i].ptype = a.ptype)

\* "severity = case when %s > confidence then %s else severity end"
severity_case(row, a) ==
    IF a.confidence > row.confidence THEN a.severity ELSE row.severity

\* the "update heuristic_rules" statement and what guards it
update_existing(hs, existing, a) ==
    LET row == hs[existing.id]
        higher == \/ a.confidence > existing.confidence
                  \/ a.confidence = existing.confidence /\ a.severity # existing.severity
    IN  IF higher
        THEN [hs EXCEPT ![existing.id] =
                 [row EXCEPT !.confidence = Greatest(row.confidence, a.confidence),
                             !.severity = severity_case(row, a)]]
        ELSE hs

\* insert_heuristic_rule after its first select.  Result: heur, id, is_new
write_heuristic_rule(hs, existing, a) ==
    IF existing.id # 0
    THEN [heur |-> update_existing(hs, existing, a), id |-> existing.id, is_new |-> FALSE]
    ELSE IF unique_pattern(hs, a)
    THEN [heur |-> Append(hs, HeurRow(a.guild, a.pattern, a.ptype, a.confidence,
                                      a.severity)),
          id |-> Len(hs) + 1, is_new |-> TRUE]
    ELSE [heur |-> hs, id |-> select_existing(hs, a).id, is_new |-> FALSE]

InitStore ==
    /\ dry_run = FALSE
    /\ proactive = TRUE
    /\ automations = [c \in TextChannels |-> NoRule]
    /\ db_up = TRUE
    /\ convs = <<>>
    /\ heur = <<>>
    /\ now = 0
    /\ pc = "idle"
    /\ event = NoEvent
    /\ pre = NoTables
    /\ decision = NoDecision
    /\ trace = <<>>
    /\ failed = FALSE
    /\ split = NoSplit
    /\ tasks = [p \in Procs |-> IdleTask]
    /\ lock = Free

StoreUnchanged ==
    UNCHANGED <<lock, split, dry_run, proactive, automations, db_up, convs, now, pc, event,
                pre, decision, trace, failed>>

\* _tool_suggest_heuristic of one process reaches insert_heuristic_rule,
\* which runs its select
SuggestRule(p) ==
    /\ tasks[p].pc = "idle"
    /\ \E a \in StoreCalls :
          tasks' = [tasks EXCEPT ![p] =
                       [IdleTask EXCEPT !.pc = "looked", !.op = "suggest", !.args = a,
                                        !.existing = select_existing(heur, a)]]
    /\ UNCHANGED heur
    /\ StoreUnchanged

\* seed_global_heuristics at on_ready: the pattern is not among the rules
\* fetched, so the rule will be inserted
SeedCheck(p) ==
    /\ tasks[p].pc = "idle"
    /\ \E k \in DOMAIN GLOBAL_FRAUD_HEURISTICS :
          LET a == SeedCall(k)
              existing == fetch_active_heuristics(heur, GlobalScope, 0, "lo")
              pattern_exists ==
                  \E n \in DOMAIN existing :
                      SameKey(heur[existing[n]], GlobalScope, a.pattern, a.ptype)
          IN  /\ ~pattern_exists
              /\ tasks' = [tasks EXCEPT ![p] =
                              [IdleTask EXCEPT !.pc = "checked", !.op = "seed",
                                               !.args = a]]
    /\ UNCHANGED heur
    /\ StoreUnchanged

\* the select of the insert_heuristic_rule that the seeding calls
SeedLookup(p) ==
    /\ tasks[p].pc = "checked"
    /\ tasks' = [tasks EXCEPT ![p].pc = "looked",
                              ![p].existing = select_existing(heur, tasks[p].args)]
    /\ UNCHANGED heur
    /\ StoreUnchanged

\* the update or the insert, and the commit
WriteRule(p) ==
    /\ tasks[p].pc = "looked"
    /\ \E r \in {write_heuristic_rule(heur, tasks[p].existing, tasks[p].args)} :
          /\ Len(r.heur) <= MaxStoreRows
          /\ heur' = r.heur
          /\ tasks' = [tasks EXCEPT ![p].pc = "returned",
                                    ![p].id = r.id,
                                    ![p].is_new = r.is_new,
                                    ![p].before = IF r.is_new THEN NoRow ELSE heur[r.id],
                                    ![p].after = r.heur[r.id]]
    /\ StoreUnchanged

\* insert_heuristic_rule returns (id, is_new)
ReturnRule(p) ==
    /\ tasks[p].pc = "returned"
    /\ tasks' = [tasks EXCEPT ![p] = [IdleTask EXCEPT !.matches = tasks[p].matches]]
    /\ UNCHANGED heur
    /\ StoreUnchanged

NextStore ==
    \/ \E p \in Procs : SuggestRule(p)
    \/ \E p \in Procs : SeedCheck(p)
    \/ \E p \in Procs : SeedLookup(p)
    \/ \E p \in Procs : WriteRule(p)
    \/ \E p \in Procs : ReturnRule(p)

\* two bot processes on one store
SpecStore == InitStore /\ [][NextStore]_vars

Reinserted(p) ==
    /\ tasks[p].pc = "returned"
    /\ tasks[p].existing.id # 0

\* C24: re-inserting an existing (scope, pattern, pattern_kind) leaves the
\* stored severity at the maximum, in the order low < medium < high <
\* critical, of the severity stored before and the severity supplied.
C24_SeverityIsMax ==
    \A p \in Procs :
        Reinserted(p) =>
            SeverityRank(tasks[p].after.severity) =
                LET old == SeverityRank(tasks[p].before.severity)
                    new == SeverityRank(tasks[p].args.severity)
                IN  IF old >= new THEN old ELSE new

\* C25: after any interleaving of insertions and seedings by the processes
\* that share the store, the store holds at most one rule per (scope,
\* pattern, pattern_kind), in community scope and in global scope alike.
C25_OneRulePerKey ==
    \A i, j \in DOMAIN heur :
        SameKey(heur[i], heur[j].guild, heur[j].pattern, heur[j].ptype) => i = j

\* C26: handling a message that an automation rule handles causes no
\* Conversation Tracker transition: no conversation is created, extended or
\* closed and no conversation message is appended, whatever the
\* conversation state is.
C26_AutomationLeavesTracker ==
    (Handled /\ Human(event.m) /\ AutomationActed) => convs = pre.convs

\* the Pattern Matcher's own delete succeeded before the reasoning call
DeletedByMatcher ==
    /\ HeuristicHit
    /\ \E i \in Where("platform", "delete") :
          /\ trace[i].a = "ok"
          /\ \A j \in Where("llm", "violation") : i < j

\* C27: after a heuristic match has deleted a message, handling the
\* violation-confirmed response issues no second platform delete for that
\* message, whatever its tool calls are, and the other tool calls of the
\* response are still executed.
C27_NoSecondDelete ==
    (Handled /\ db_up /\ DeletedByMatcher /\ Asked("violation") # {}) =>
        /\ Cardinality(Where("platform", "delete")) = 1
        /\ \A i \in DOMAIN event.env.calls :
              (event.env.calls[i].name = "escalate_to_human"
                  /\ ValidCall(event.env.calls[i]))
              => Where("audit", "escalate") # {}

----------------------------------------------------------------------------
(* Handlers that match the same rules at the same time.  Each handler of   *)
(* _check_message_for_violations fetches the rules, finds the first match  *)
(* and only then awaits increment_heuristic_usage; handlers of another     *)
(* process on the same store run in between.                               *)

\* stores that earlier suggestions have left behind
UsageStores ==
    { << HeurRow(GlobalScope, <<"nitro">>, "contains", 90, "high") >>,
      << HeurRow(Guild, <<"nitro">>, "contains", 80, "high"),
         HeurRow(GlobalScope, <<"nitro">>, "contains", 90, "high") >>,
      << HeurRow(Guild, <<"nitro">>, "contains", 90, "high"),
         HeurRow(GlobalScope, <<"nitro">>, "contains", 90, "high") >> }

InitUsage ==
    /\ dry_run = FALSE
    /\ proactive = TRUE
    /\ automations = [c \in TextChannels |-> NoRule]
    /\ db_up = TRUE
    /\ convs = <<>>
    /\ heur \in UsageStores
    /\ now = 0
    /\ pc = "idle"
    /\ event = NoEvent
    /\ pre = NoTables
    /\ decision = NoDecision
    /\ trace = <<>>
    /\ failed = FALSE
    /\ split = NoSplit
    /\ tasks = [p \in Procs |-> [IdleTask EXCEPT !.matches = [i \in DOMAIN heur |-> 0]]]
    /\ lock = Free

\* a handler fetches the rules and finds the first one that matches
MatchRule(p) ==
    /\ tasks[p].pc = "idle"
    /\ \E tb \in {"lo", "hi"} :
          LET heuristics == fetch_active_heuristics(heur, Guild, MinConfidence, tb)
              hit == FirstMatch(heur, heuristics, Content.scam)
          IN  /\ hit # 0
              /\ tasks' = [tasks EXCEPT ![p].pc = "matched", ![p].op = "match",
                                        ![p].id = hit, ![p].before = heur[hit]]
    /\ UNCHANGED heur
    /\ StoreUnchanged

\* the handler's increment_heuristic_usage(rule["id"])
CountUse(p) ==
    /\ tasks[p].pc = "matched"
    /\ heur[tasks[p].id].use_count < MaxUse
    /\ heur' = increment_heuristic_usage(heur, tasks[p].id)
    /\ tasks' = [tasks EXCEPT ![p].pc = "returned",
                              ![p].after = heur'[tasks[p].id],
                              ![p].matches[tasks[p].id] = @ + 1]
    /\ StoreUnchanged

NextUsage ==
    \/ \E p \in Procs : MatchRule(p)
    \/ \E p \in Procs : CountUse(p)
    \/ \E p \in Procs : ReturnRule(p)

\* handlers matching at the same time
SpecUsage == InitUsage /\ [][NextUsage]_vars

RECURSIVE MatchesOf(_, _)
MatchesOf(ps, i) ==
    IF ps = {} THEN 0
    ELSE LET p == CHOOSE q \in ps : TRUE
         IN  tasks[p].matches[i] + MatchesOf(ps \ {p}, i)

\* C28: each heuristic match adds exactly 1 to the use_count of the rule it
\* surfaced and changes no other rule's counter, and no increment is lost
\* when handlers match the same rule at the same time: every rule's
\* use_count is the number of matches that surfaced it.
C28_UseCountCountsMatches ==
    /\ \A i \in DOMAIN heur : heur[i].use_count = MatchesOf(Procs, i)
    /\ \A p \in Procs :
          tasks[p].pc = "returned" =>
              tasks[p].after.use_count >= tasks[p].before.use_count + 1

\* two handlers fetched the same rule before either had counted, and both
\* increments are in the store
C28_Witness ==
    \E i \in DOMAIN heur :
        /\ \A p \in Procs :
              /\ tasks[p].pc = "returned"
              /\ tasks[p].id = i
              /\ tasks[p].before.use_count = 0
        /\ heur[i].use_count = Cardinality(Procs)

----------------------------------------------------------------------------
\* rule i was fetched for the message and its pattern does not compile
BadRegex(i) ==
    /\ pre.heur[i].ptype = "regex"
    /\ ~RegexCompiles(pre.heur[i].pattern)
    /\ pre.heur[i].active
    /\ pre.heur[i].confidence >= MinConfidence
    /\ pre.heur[i].guild \in {event.m.guild, GlobalScope}

\* the loop over the fetched rules reached rule i before it stopped
Evaluated(i) ==
    LET heuristics == fetch_active_heuristics(pre.heur, event.m.guild, MinConfidence,
                                              event.env.tb)
        hit == FirstMatch(pre.heur, heuristics, event.m.content)
    IN  \E k \in DOMAIN heuristics :
            /\ heuristics[k] = i
            /\ \A n \in DOMAIN heuristics : heuristics[n] = hit => k < n

\* C29: a regex rule whose pattern fails to compile is skipped without
\* aborting the matching, the remaining rules are still evaluated against
\* the message, and the rule is marked as needing review but is neither
\* removed from the store nor deactivated.
C29_BadRegexSkippedAndFlagged ==
    (Handled /\ db_up /\ Where("matcher", "check") # {}) =>
        \A i \in DOMAIN pre.heur :
            (BadRegex(i) /\ Evaluated(i)) =>
                /\ ~failed
                /\ HeuristicHit <=> \E j \in DOMAIN pre.heur : Eligible(j)
                /\ heur[i].active
                /\ heur[i].pattern = pre.heur[i].pattern
                /\ heur[i].requires_review
                       = mark_heuristic_for_review(pre.heur, i)[i].requires_review

----------------------------------------------------------------------------
(* Two messages of one channel in flight (sentinel/bot.py on_message).     *)
(*                                                                         *)
(* The client runs every on_message in a task of its own.  A handler runs  *)
(* up to its await of the reasoning service, where the event loop takes    *)
(* the next task, and is resumed when its answer arrives; answers arrive   *)
(* in any order.  Nothing in on_message or handle_message orders the       *)
(* handlers of one channel.                                                *)

\* the events of channel c1, numbered in the order of their delivery
Events == {1, 2}

ChannelMessages ==
    { Message(u, "c1", mb, FALSE, c) :
          u \in Users, mb \in BOOLEAN, c \in {Content.hi, Content.exit} }

ChannelEnvs == { Answer(<<Escalate>>), Answer(<<Send>>), Answer(<<Send, Escalate>>) }

NotReceived == [pc |-> "idle", m |-> BotMessage, conv |-> NoConv, first_audit |-> 0]

InitChannel ==
    /\ dry_run = FALSE
    /\ proactive = TRUE
    /\ automations = [c \in TextChannels |-> NoRule]
    /\ db_up = TRUE
    /\ convs = <<>>
    /\ heur = <<>>
    /\ now = 0
    /\ pc = "idle"
    /\ event = NoEvent
    /\ pre = NoTables
    /\ decision = NoDecision
    /\ trace = <<>>
    /\ failed = FALSE
    /\ split = NoSplit
    /\ tasks = [e \in Events |-> NotReceived]
    /\ lock = Free

ChannelUnchanged ==
    UNCHANGED <<lock, split, dry_run, proactive, automations, db_up, heur, now, pc, event,
                pre, decision, failed>>

\* handle_message from its start to the await of the reasoning service: the
\* conversation is looked up and started or continued.  A message that gets
\* no response is done here: no automation rule and no heuristic exists.
Receive(e) ==
    /\ tasks[e].pc = "idle"
    /\ \A earlier \in Events : earlier < e => tasks[earlier].pc # "idle"
    /\ \E m \in ChannelMessages :
          LET d == should_respond(convs, now, m, m.mentions_bot, "lo")
              st == start_or_continue_conversation(d.convs, now, m, d.conv)
              tracked == handle_mention_tracking(st.convs, now, m, st.id)
          IN  IF d.respond
              THEN /\ Len(tracked) <= MaxConvs
                   /\ convs' = tracked
                   /\ tasks' = [tasks EXCEPT ![e] = [pc |-> "waiting", m |-> m,
                                                     conv |-> st.id, first_audit |-> 0]]
              ELSE /\ convs' = d.convs
                   /\ tasks' = [tasks EXCEPT ![e] = [pc |-> "done", m |-> m,
                                                     conv |-> NoConv, first_audit |-> 0]]
    /\ UNCHANGED trace
    /\ ChannelUnchanged

\* the reasoning service answers and the handler executes the tool calls
Resume(e) ==
    /\ tasks[e].pc = "waiting"
    /\ \E env \in ChannelEnvs :
          LET m == tasks[e].m
              s == [convs |-> convs, heur |-> heur, trace |-> trace, failed |-> FALSE,
                    decision |-> NoDecision]
              ctx == [m |-> m, dry |-> dry_run, perm |-> env.perm, send |-> env.send,
                      create |-> env.create, conv |-> tasks[e].conv, use_thread |-> FALSE,
                      crowded |-> env.crowded, reply_old |-> env.reply_old]
          IN  \E r \in {_reason_about_event(s, env, ctx)} :
                 LET written == {i \in DOMAIN r.trace :
                                    i > Len(trace) /\ r.trace[i].k = "audit"}
                 IN  /\ convs' = r.convs
                     /\ trace' = r.trace
                     /\ tasks' = [tasks EXCEPT
                                     ![e].pc = "done",
                                     ![e].first_audit =
                                         IF written = {} THEN 0 ELSE MinOf(written)]
    /\ ChannelUnchanged

NextChannel ==
    \/ \E e \in Events : Receive(e)
    \/ \E e \in Events : Resume(e)

\* the handlers of two messages of one channel
SpecChannel == InitChannel /\ [][NextChannel]_vars

\* C30: events of one channel are processed one at a time: the handling of
\* a later message does not start reading or mutating conversation state,
\* nor writing audit records, before the handling of the earlier message
\* has completed, so the audit records follow the order of the events.
C30_OneAtATimePerChannel ==
    \A e1, e2 \in Events :
        (e1 < e2 /\ tasks[e1].m.channel = tasks[e2].m.channel) =>
            /\ tasks[e2].pc # "idle" => tasks[e1].pc = "done"
            /\ (tasks[e1].first_audit # 0 /\ tasks[e2].first_audit # 0)
                   => tasks[e1].first_audit < tasks[e2].first_audit

----------------------------------------------------------------------------
\* the response is one send_message call that passes validation
OneSendCall ==
    /\ Len(ExecutedCalls) = 1
    /\ ExecutedCalls[1].name = "send_message"
    /\ ValidCall(ExecutedCalls[1])

\* C31: in one send_message call thread creation is attempted at most once,
\* and when it fails the message is still sent, exactly once, to the
\* resolved channel.
C31_ThreadFailureFallsBack ==
    (Handled /\ ~dry_run /\ OneSendCall) =>
        /\ Cardinality(Where("platform", "create_thread")) <= 1
        /\ \A i \in Where("platform", "create_thread") :
              trace[i].a # "ok" =>
                  /\ Cardinality(Where("platform", "send")) = 1
                  /\ \A j \in Where("platform", "send") : i < j

\* the thread could not be created and the message went out all the same
C31_Witness ==
    /\ Handled /\ ~dry_run /\ OneSendCall
    /\ \E i \in Where("platform", "create_thread") : trace[i].a = "forbidden"
    /\ \E j \in Where("platform", "send") : trace[j].a = "ok"

----------------------------------------------------------------------------
\* C32: a message that does not mention the bot and mentions another user never
\* continues a conversation: should_respond returns false for it in every
\* conversation state, in a channel or in a thread.
C32_OtherMentionNeverContinues ==
    (/\ Handled /\ Human(event.m)
     /\ ~event.m.mentions_bot /\ OtherMentions(event.m) # {})
    => ~decision.respond

----------------------------------------------------------------------------
(* The life of a heuristic rule: suggested by the reasoning service in two  *)
(* communities, seeded at on_ready, adjusted and disabled.                  *)

Guild2 == "g2"

\* "update heuristic_rules set active = false where id = %s"
disable_heuristic(hs, id) ==
    IF ~db_up THEN hs ELSE [hs EXCEPT ![id].active = FALSE]

\* one author writes in a channel of each community, and asks the bot
RuleMessages ==
    { [Message("u1", "c1", FALSE, FALSE, c) EXCEPT !.guild = g] :
          g \in {Guild, Guild2}, c \in {Content.hi, Content.scam} }
    \cup { [Message("u1", "c1", TRUE, FALSE, Content.hi) EXCEPT !.guild = g] :
               g \in {Guild, Guild2} }

\* the reasoning service proposes the rule with a confidence of 0.6 or of 0.9
RuleEnvs == {QuietEnv} \cup { Answer(<<Suggest(c)>>) : c \in {60, 90} }

RuleMessageCreate == HandleMessage(RuleMessages, RuleEnvs)

DisableHeuristic ==
    /\ pc = "idle"
    /\ db_up
    /\ \E id \in DOMAIN heur :
          /\ heur[id].active
          /\ heur' = disable_heuristic(heur, id)
    /\ UNCHANGED <<lock, split, tasks, dry_run, proactive, automations, db_up, convs, now, pc,
                   event, pre, decision, trace, failed>>

NextRules ==
    \/ RuleMessageCreate
    \/ Ack
    \/ OnReady
    \/ DisableHeuristic

\* the rules of two communities and of every community
SpecRules == Init /\ [][NextRules]_vars

\* the handled response proposed a rule whose identity an inactive row carries
ReinsertedInactive ==
    /\ Handled /\ db_up /\ ~failed
    /\ \E k \in DOMAIN ExecutedCalls :
          /\ ExecutedCalls[k].name = "suggest_heuristic"
          /\ \E i \in RowsOf(pre.heur, ExecutedCalls[k]) : ~pre.heur[i].active

----------------------------------------------------------------------------
(* The confidence of a rule: proposed, proposed again and adjusted *)

\* "set confidence = greatest(0.0, least(1.0, confidence + %s))"
update_heuristic_confidence(hs, id, adjustment) ==
    IF ~db_up THEN hs
    ELSE [hs EXCEPT ![id].confidence =
             Greatest(0, IF @ + adjustment <= 100 THEN @ + adjustment ELSE 100)]

Adjustments == {0 - 100, 0 - 10, 10, 100}

\* the author asks the bot
ConfidenceMessages == { Message("u1", "c1", TRUE, FALSE, Content.hi) }

\* the reasoning service proposes the rule with a confidence of 0.6, of 0.9, of
\* 1.5 or of -0.5
ConfidenceEnvs == { Answer(<<Suggest(c)>>) : c \in {60, 90, 150, 0 - 50} }

ConfidenceMessageCreate == HandleMessage(ConfidenceMessages, ConfidenceEnvs)

AdjustConfidence ==
    /\ pc = "idle"
    /\ \E id \in DOMAIN heur, adjustment \in Adjustments :
          /\ heur' = update_heuristic_confidence(heur, id, adjustment)
          /\ heur' # heur
    /\ UNCHANGED <<lock, split, tasks, dry_run, proactive, automations, db_up, convs, now, pc,
                   event, pre, decision, trace, failed>>

NextConfidence ==
    \/ ConfidenceMessageCreate
    \/ Ack
    \/ OnReady
    \/ AdjustConfidence

SpecConfidence == Init /\ [][NextConfidence]_vars

\* C34: after any sequence of insertions, re-insertions (suggest_heuristic with
\* arbitrary arguments) and confidence adjustments, the confidence of every
\* stored rule lies within [0, 1].
C34_ConfidenceWithinUnitInterval ==
    \A i \in DOMAIN heur : heur[i].confidence \in 0..100

----------------------------------------------------------------------------
(* ModerationAgent.handle_message_edit *)

\* variant: the edit of any author is reasoned about
edit_of_any_author(m, env) ==
    LET s0 == [convs |-> convs, heur |-> heur, trace |-> <<>>, failed |-> FALSE,
               decision |-> NoDecision]
        ctx == [m |-> m, dry |-> dry_run, perm |-> env.perm, send |-> env.send,
                create |-> env.create, conv |-> NoConv, use_thread |-> FALSE,
                crowded |-> env.crowded, reply_old |-> env.reply_old]
    IN  _reason_about_event(s0, env, ctx)

\* variant: the edited message goes through the pipeline of a new message
edit_as_new_message(m, env) == handle_message(m, env)

\* Result: convs, heur, trace, failed, decision.  m is the message after the edit;
\* _reason_about_event is called without conversation_id and use_thread
handle_message_edit(m, env) ==
    LET s0 == [convs |-> convs, heur |-> heur, trace |-> <<>>, failed |-> FALSE,
               decision |-> NoDecision]
        ctx == [m |-> m, dry |-> dry_run, perm |-> env.perm, send |-> env.send,
                create |-> env.create, conv |-> NoConv, use_thread |-> FALSE,
                crowded |-> env.crowded, reply_old |-> env.reply_old]
    IN  IF m.is_bot \/ m.guild = NoGuild THEN s0
        ELSE _reason_about_event(s0, env, ctx)

\* on_message_edit: the whole of handle_message_edit for one edited message
HandleMessageEdit(M, E) ==
    /\ pc = "idle"
    /\ \E m \in M, e \in E :
          \E r \in {handle_message_edit(m, e)} :
              /\ Len(r.heur) <= MaxRules
              /\ convs' = r.convs
              /\ heur' = r.heur
              /\ trace' = r.trace
              /\ failed' = r.failed
              /\ decision' = r.decision
              /\ event' = [m |-> m, env |-> e]
    /\ pre' = [convs |-> convs, heur |-> heur]
    /\ pc' = "edited"
    /\ UNCHANGED <<lock, split, tasks, dry_run, proactive, automations, db_up, now>>

\* new and edited messages: of a member, of a bot and outside a guild
EditMessages ==
    { Message("u1", "c1", mb, FALSE, c) :
          mb \in BOOLEAN, c \in {Content.hi, Content.scam} }
    \cup {BotMessage, DirectMessage}

EditEnvs ==
    { QuietEnv, Answer(<<Send>>), Answer(<<Take("delete_message")>>),
      Answer(<<Suggest(90)>>) }

EditMessageCreate == HandleMessage(EditMessages, EditEnvs)

MessageEdit == HandleMessageEdit(EditMessages, EditEnvs)

NextEdit ==
    \/ EditMessageCreate
    \/ MessageEdit
    \/ Ack
    \/ SetDryRun
    \/ SetAutomation
    \/ OnReady

\* messages and their edits
SpecEdit == Init /\ [][NextEdit]_vars

Edited == pc = "edited"

\* C35: a message or a message edit whose author is a bot, this bot included,
\* has no effect in the pipeline: no conversation transition, no automation or
\* heuristic evaluation, no reasoning call, no platform action and no audit
\* record.
C35_BotAuthorsAreIgnored ==
    ((Handled \/ Edited) /\ event.m.is_bot) =>
        /\ trace = <<>>
        /\ convs = pre.convs
        /\ heur = pre.heur
        /\ ~decision.respond
        /\ ~failed

\* a bot edited its message in a channel whose automation rule deletes every
\* message
C35_Witness ==
    /\ Edited /\ event.m.is_bot
    /\ DeletesAll(event.m)
    /\ trace = <<>>

----------------------------------------------------------------------------
\* rule i was active, of the message's community or global, and matches the
\* message, with a confidence below 0.7
BelowThreshold(i) ==
    /\ pre.heur[i].active
    /\ pre.heur[i].confidence < MinConfidence
    /\ pre.heur[i].guild \in {event.m.guild, GlobalScope}
    /\ RuleMatches(pre.heur[i], event.m.content)

\* C36: a rule whose confidence is below 0.7 never triggers a detection, even
\* when it is active and its pattern matches: its use_count is not incremented
\* and, when no rule of confidence 0.7 or more is eligible, nothing is detected
\* and no message is deleted.
C36_LowConfidenceNeverTriggers ==
    Handled =>
        /\ \A i \in Surfaced : pre.heur[i].confidence >= MinConfidence
        /\ (\A i \in DOMAIN pre.heur : ~Eligible(i)) =>
               /\ ~HeuristicHit
               /\ Where("platform", "delete") = {}
               /\ Where("llm", "violation") = {}

\* the only rule that matches the message has confidence 0.6: the Pattern
\* Matcher looks and finds nothing
C36_Witness ==
    /\ Handled /\ db_up
    /\ \E i \in DOMAIN pre.heur : BelowThreshold(i)
    /\ \A i \in DOMAIN pre.heur : ~Eligible(i)
    /\ \E i \in Where("matcher", "check") : trace[i].a = "miss"

----------------------------------------------------------------------------
\* rule i belongs to another community than the message, and is active, of
\* confidence 0.7 or more and matches the message
ForeignMatch(i) ==
    /\ pre.heur[i].guild \notin {event.m.guild, GlobalScope}
    /\ pre.heur[i].active
    /\ pre.heur[i].confidence >= MinConfidence
    /\ RuleMatches(pre.heur[i], event.m.content)

\* C37: heuristic rules are isolated per community: a rule of community A is
\* never evaluated against a message of community B and never causes its
\* deletion; only global rules and the rules of the message's own community
\* apply, and a rule suggested while an event of community A is handled is
\* stored with scope A.
C37_RulesIsolatedPerCommunity ==
    Handled =>
        /\ \A i \in Surfaced : pre.heur[i].guild \in {event.m.guild, GlobalScope}
        /\ (\A i \in DOMAIN pre.heur : ~Eligible(i)) =>
               /\ \A i \in Where("matcher", "check") : trace[i].a = "miss"
               /\ Mutations = {}
        /\ \A i \in DOMAIN heur :
               i \notin DOMAIN pre.heur => heur[i].guild = event.m.guild

\* the only rule that matches the message of community g2 belongs to g1: the
\* message stays
C37_Witness ==
    /\ Handled /\ db_up /\ event.m.guild = Guild2
    /\ \E i \in DOMAIN pre.heur : ForeignMatch(i)
    /\ \A i \in DOMAIN pre.heur : ~Eligible(i)
    /\ Where("matcher", "check") # {}
    /\ Mutations = {}

----------------------------------------------------------------------------
\* C39: a message-edit event is not evaluated by the Automation Matcher, the
\* Conversation Tracker or the Pattern Matcher: it causes no automation action,
\* no heuristic-triggered deletion and no conversation transition, and is
\* handled by one full-context reasoning call and nothing else.
C39_EditGoesToReasoningOnly ==
    (Edited /\ Human(event.m)) =>
        /\ convs = pre.convs
        /\ ~decision.respond
        /\ Where("matcher", "check") = {}
        /\ Where("llm", "violation") = {}
        /\ \A i \in DOMAIN pre.heur : heur[i].use_count = pre.heur[i].use_count
        /\ Cardinality(Where("llm", "full")) = 1
        /\ trace[1].k = "llm"
        /\ event.env.calls = <<>> => Len(trace) = 1

\* the edited message is one that an automation rule and a heuristic rule
\* match, written by an author who has an active conversation
C39_Witness ==
    /\ Edited /\ Human(event.m) /\ db_up /\ ~dry_run
    /\ RuleMatchesMessage(event.m)
    /\ Matched(event.m)
    /\ Own(event.m) # {}
    /\ Len(trace) = 1

----------------------------------------------------------------------------
(* StateStore and its lock.  Every handler is a task of the event loop; a   *)
(* task runs until it awaits something it has to wait for.  What a task     *)
(* still has to do is the sequence of the steps of its calls: "acquire" and *)
(* "release" are the entry and the exit of "async with self._lock",         *)
(* "refresh" and "refreshed" the call and the return of                     *)
(* refresh_context_channel, and the other steps are awaits outside the      *)
(* lock.                                                                    *)

MaxChannels == 2

StateTasks == {"on_ready", "on_message_1", "on_message_2"}

NotStarted == [todo |-> <<>>, in_refresh |-> FALSE, started |-> FALSE]

\* get_state with a connected store: the reads of the store happen inside
\* "async with self._lock"
get_state == <<"acquire", "release">>

\* add_context_channel: the upsert happens inside "async with self._lock"
add_context_channel == <<"acquire", "release">>

\* refresh_context_channel: bot.get_channel finds the channel or the call
\* returns False; the state of the guild is read inside "async with
\* self._lock"; the summary is fetched and stored
refresh_context_channel(found) ==
    IF ~found THEN <<"refresh", "refreshed">>
    ELSE <<"refresh", "acquire">> \o get_state \o <<"release", "fetch">>
         \o add_context_channel \o <<"refreshed">>

\* "for channel_id in list(guild_state.context_channels.keys())"
RECURSIVE refresh_each(_)
refresh_each(found) ==
    IF found = <<>> THEN <<>>
    ELSE refresh_context_channel(Head(found)) \o refresh_each(Tail(found))

\* refresh_all_context_channels for one guild
refresh_all_context_channels(found) == get_state \o refresh_each(found)

\* on_ready: get_state, the seeding, refresh_all_context_channels
on_ready(found) == get_state \o <<"seed">> \o refresh_all_context_channels(found)

\* on_message: get_state without a guild, which lists no context channel, and
\* handle_message, which calls get_state once
on_message == get_state \o get_state \o <<"handle">>

InitState ==
    /\ dry_run = FALSE
    /\ proactive = TRUE
    /\ automations = [c \in TextChannels |-> NoRule]
    /\ db_up = TRUE
    /\ convs = <<>>
    /\ heur = <<>>
    /\ now = 0
    /\ pc = "idle"
    /\ event = NoEvent
    /\ pre = NoTables
    /\ decision = NoDecision
    /\ trace = <<>>
    /\ failed = FALSE
    /\ split = NoSplit
    /\ tasks = [t \in StateTasks |-> NotStarted]
    /\ lock = Free

StateUnchanged ==
    UNCHANGED <<split, dry_run, proactive, automations, db_up, convs, heur, now, pc,
                event, pre, decision, trace, failed>>

\* the bot is ready: the guild has up to MaxChannels context channels, each of
\* which bot.get_channel finds or does not find
ReadyStarts ==
    /\ ~tasks["on_ready"].started
    /\ \E n \in 0..MaxChannels :
       \E found \in [1..n -> BOOLEAN] :
          tasks' = [tasks EXCEPT !["on_ready"] =
                       [todo |-> on_ready(found), in_refresh |-> FALSE,
                        started |-> TRUE]]
    /\ UNCHANGED lock
    /\ StateUnchanged

\* a message arrives and its handler starts
MessageStarts(t) ==
    /\ t # "on_ready"
    /\ tasks[t].todo = <<>>
    /\ tasks' = [tasks EXCEPT ![t] =
                    [todo |-> on_message, in_refresh |-> FALSE, started |-> TRUE]]
    /\ UNCHANGED lock
    /\ StateUnchanged

\* asyncio.Lock.acquire: returns once the lock is not locked
Acquire(t) ==
    /\ tasks[t].todo # <<>>
    /\ Head(tasks[t].todo) = "acquire"
    /\ lock = Free
    /\ lock' = t
    /\ tasks' = [tasks EXCEPT ![t].todo = Tail(@)]
    /\ StateUnchanged

\* asyncio.Lock.release
Release(t) ==
    /\ tasks[t].todo # <<>>
    /\ Head(tasks[t].todo) = "release"
    /\ lock' = Free
    /\ tasks' = [tasks EXCEPT ![t].todo = Tail(@)]
    /\ StateUnchanged

\* the task gets on with a step that needs no lock
Proceed(t) ==
    /\ tasks[t].todo # <<>>
    /\ Head(tasks[t].todo) \notin {"acquire", "release"}
    /\ tasks' = [tasks EXCEPT
                    ![t].todo = Tail(@),
                    ![t].in_refresh =
                        IF Head(tasks[t].todo) = "refresh" THEN TRUE
                        ELSE IF Head(tasks[t].todo) = "refreshed" THEN FALSE
                        ELSE @]
    /\ UNCHANGED lock
    /\ StateUnchanged

NextState ==
    \/ ReadyStarts
    \/ \E t \in StateTasks : MessageStarts(t)
    \/ \E t \in StateTasks : Acquire(t)
    \/ \E t \in StateTasks : Release(t)
    \/ \E t \in StateTasks : Proceed(t)

\* the event loop runs every task that can go on, and the lock is handed to
\* its waiters in the order of their arrival
SpecState ==
    /\ InitState
    /\ [][NextState]_vars
    /\ \A t \in StateTasks : SF_vars(Acquire(t))
    /\ \A t \in StateTasks : WF_vars(Release(t))
    /\ \A t \in StateTasks : WF_vars(Proceed(t))

\* task t awaits the lock
Waits(t) == tasks[t].todo # <<>> /\ Head(tasks[t].todo) = "acquire"

\* C38: with a connected store every call of refresh_context_channel returns
\* and leaves the lock of the StateStore free, and no call of get_state waits
\* for the lock forever.
C38_RefreshReturnsAndFreesLock ==
    /\ \A t \in StateTasks :
          tasks[t].in_refresh ~> (~tasks[t].in_refresh /\ lock # t)
    /\ \A t \in StateTasks : Waits(t) ~> ~Waits(t)

====
